---- MODULE Spec2Model ----
(***************************************************************************)
(* The poker state machine of src/src/state.rs (State, StateBuilder) as a  *)
(* state machine.  One Rust field is one variable of the same name; one    *)
(* public operation of State is one action.  The private phase functions   *)
(* (begin_X, run_X_automation, end_X) are operators on a record of the     *)
(* mutable fields, composed exactly as the Rust functions call each other, *)
(* so that an action is the whole handler including its tail calls.        *)
(***************************************************************************)
EXTENDS Integers, Sequences, FiniteSets, TLC

(***************************************************************************)
(* Bounds of the model.                                                    *)
(***************************************************************************)
\* the caller invokes at most this many public operations on one State
MaxCalls == 5
\* complete_bet_or_raise_to is called with amounts 1 .. MaxAmount
MaxAmount == 3
\* the configured deck holds the cards 1 .. DeckSize
DeckSize == 6

\* Option::None of an Option<usize>
None == -1

\* StateBuilder::new: starting_board_count is 1 and has no setter
StartingBoardCount == 1

(***************************************************************************)
(* Configuration (fixed at construction).                                  *)
(***************************************************************************)
VARIABLES automations, streets, betting_structure, ante_trimming_status, antes,
          blinds_or_straddles, starting_stacks, player_count

(***************************************************************************)
(* Game state and phase-specific state.                                    *)
(***************************************************************************)
VARIABLES deck_cards, board_cards, mucked_cards, burn_cards, statuses, bets,
          stacks, payoffs, hole_cards, hole_card_statuses, street_index,
          status, operations, ante_posting_statuses, bet_collection_status,
          blind_or_straddle_posting_statuses, card_burning_status,
          hole_dealing_statuses, board_dealing_counts,
          standing_pat_or_discarding_statuses, actor_indices, opener_index,
          completion_betting_or_raising_amount,
          completion_betting_or_raising_count, acted_player_indices

(***************************************************************************)
(* Position of the machine: the phase function (begin_X) entered last, and *)
(* whether a panic (unwrap of None, unimplemented!, drain out of range)    *)
(* has aborted the thread.                                                 *)
(***************************************************************************)
VARIABLES phase, panicked

\* the number of public operations the caller may still invoke (a bound)
VARIABLE calls_left

(***************************************************************************)
(* The rest of the crate: builder is a LookupBuilder under construction    *)
(* (lookups.rs), lookups holds the lazily built static lookup tables of    *)
(* hands.rs, and returned is the last call of a constructor or of a pure   *)
(* function together with what it returned.                                *)
(***************************************************************************)
VARIABLES builder, lookups, returned

library == <<builder, lookups, returned>>

config == <<automations, streets, betting_structure, ante_trimming_status, antes,
            blinds_or_straddles, starting_stacks, player_count>>

vars == <<automations, streets, betting_structure, ante_trimming_status, antes,
          blinds_or_straddles,
          starting_stacks, player_count,
          deck_cards, board_cards, mucked_cards, burn_cards, statuses, bets,
          stacks, payoffs, hole_cards, hole_card_statuses, street_index,
          status, operations, ante_posting_statuses, bet_collection_status,
          blind_or_straddle_posting_statuses, card_burning_status,
          hole_dealing_statuses, board_dealing_counts,
          standing_pat_or_discarding_statuses, actor_indices, opener_index,
          completion_betting_or_raising_amount,
          completion_betting_or_raising_count, acted_player_indices,
          phase, panicked, calls_left, builder, lookups, returned>>

(***************************************************************************)
(* Small helpers.                                                          *)
(***************************************************************************)
Players(s) == 0 .. (s.player_count - 1)

Min(a, b) == IF a <= b THEN a ELSE b

Abs(a) == IF a < 0 THEN 0 - a ELSE a

RECURSIVE SumOver(_, _)
SumOver(f, S) ==
  IF S = {} THEN 0
  ELSE LET i == CHOOSE j \in S : TRUE IN f[i] + SumOver(f, S \ {i})

MaxOver(f, S) == IF S = {} THEN 0 ELSE CHOOSE m \in {f[i] : i \in S} : \A i \in S : f[i] <= m


\* (0..n).cycle().skip(start).take(n): the n seats in cyclic order from start
CyclicSeats(n, start) == [k \in 1 .. n |-> (start + k - 1) % n]

(***************************************************************************)
(* The mutable fields of State as one record, so that the private phase    *)
(* functions compose as they call each other in the source.                *)
(***************************************************************************)
Cur ==
  [automations |-> automations, streets |-> streets,
   betting_structure |-> betting_structure,
   ante_trimming_status |-> ante_trimming_status, antes |-> antes,
   blinds_or_straddles |-> blinds_or_straddles,
   starting_stacks |-> starting_stacks, player_count |-> player_count,
   deck_cards |-> deck_cards, board_cards |-> board_cards,
   mucked_cards |-> mucked_cards, burn_cards |-> burn_cards,
   statuses |-> statuses, bets |-> bets, stacks |-> stacks,
   payoffs |-> payoffs, hole_cards |-> hole_cards,
   hole_card_statuses |-> hole_card_statuses, street_index |-> street_index,
   status |-> status, operations |-> operations,
   ante_posting_statuses |-> ante_posting_statuses,
   bet_collection_status |-> bet_collection_status,
   blind_or_straddle_posting_statuses |-> blind_or_straddle_posting_statuses,
   card_burning_status |-> card_burning_status,
   hole_dealing_statuses |-> hole_dealing_statuses,
   board_dealing_counts |-> board_dealing_counts,
   standing_pat_or_discarding_statuses |-> standing_pat_or_discarding_statuses,
   actor_indices |-> actor_indices, opener_index |-> opener_index,
   completion_betting_or_raising_amount |-> completion_betting_or_raising_amount,
   completion_betting_or_raising_count |-> completion_betting_or_raising_count,
   acted_player_indices |-> acted_player_indices,
   phase |-> phase, panicked |-> panicked]

Install(s) ==
  /\ deck_cards' = s.deck_cards
  /\ board_cards' = s.board_cards
  /\ mucked_cards' = s.mucked_cards
  /\ burn_cards' = s.burn_cards
  /\ statuses' = s.statuses
  /\ bets' = s.bets
  /\ stacks' = s.stacks
  /\ payoffs' = s.payoffs
  /\ hole_cards' = s.hole_cards
  /\ hole_card_statuses' = s.hole_card_statuses
  /\ street_index' = s.street_index
  /\ status' = s.status
  /\ operations' = s.operations
  /\ ante_posting_statuses' = s.ante_posting_statuses
  /\ bet_collection_status' = s.bet_collection_status
  /\ blind_or_straddle_posting_statuses' = s.blind_or_straddle_posting_statuses
  /\ card_burning_status' = s.card_burning_status
  /\ hole_dealing_statuses' = s.hole_dealing_statuses
  /\ board_dealing_counts' = s.board_dealing_counts
  /\ standing_pat_or_discarding_statuses' = s.standing_pat_or_discarding_statuses
  /\ actor_indices' = s.actor_indices
  /\ opener_index' = s.opener_index
  /\ completion_betting_or_raising_amount' = s.completion_betting_or_raising_amount
  /\ completion_betting_or_raising_count' = s.completion_betting_or_raising_count
  /\ acted_player_indices' = s.acted_player_indices
  /\ phase' = s.phase
  /\ panicked' = s.panicked

\* a panic unwinds the thread: every later function of the call chain is skipped
Panic(s) == [s EXCEPT !.panicked = TRUE]

\* one record of the operation log (Operation); the commentary is left out
Rec(type, player_index, amount, cards) ==
  [type |-> type, player_index |-> player_index, amount |-> amount,
   cards |-> cards]

Log(s, r) == [s EXCEPT !.operations = Append(@, r)]

(***************************************************************************)
(* Helper methods.                                                         *)
(***************************************************************************)
\* a variant without the cap at the starting stack
ante_uncapped(s, player_index) ==
  IF s.player_count = 2 THEN s.antes[1 - player_index]
  ELSE s.antes[player_index]

get_effective_ante(s, player_index) ==
  LET ante == IF s.player_count = 2 THEN s.antes[1 - player_index]
              ELSE s.antes[player_index]
  IN  Min(ante, s.starting_stacks[player_index])

\* a variant that reads the player's own index whatever the player count
blind_of_own_index(s, player_index) ==
  LET blind == Abs(s.blinds_or_straddles[player_index])
  IN  Min(blind, s.starting_stacks[player_index] - get_effective_ante(s, player_index))

get_effective_blind_or_straddle(s, player_index) ==
  LET blind == IF s.player_count = 2
               THEN Abs(s.blinds_or_straddles[1 - player_index])
               ELSE Abs(s.blinds_or_straddles[player_index])
  IN  Min(blind, s.starting_stacks[player_index] - get_effective_ante(s, player_index))

ante_poster_indices(s) == {i \in Players(s) : s.ante_posting_statuses[i]}

blind_or_straddle_poster_indices(s) ==
  {i \in Players(s) : s.blind_or_straddle_posting_statuses[i]}

\* the first element of an ascending iterator over a non-empty set of indices
First(S) == CHOOSE i \in S : \A j \in S : i <= j

\* max_by_key(len, -i): the most pending cards, the lowest index among equals
hole_dealee_index(s) ==
  LET pending == {i \in Players(s) : Len(s.hole_dealing_statuses[i]) > 0}
  IN  IF pending = {} THEN None
      ELSE CHOOSE i \in pending :
             \A j \in pending :
               \/ Len(s.hole_dealing_statuses[j]) < Len(s.hole_dealing_statuses[i])
               \/ /\ Len(s.hole_dealing_statuses[j]) = Len(s.hole_dealing_statuses[i])
                  /\ i <= j

ActivePlayers(s) == {i \in Players(s) : s.statuses[i]}

(***************************************************************************)
(* The state changes of the posting and collection operations (the part of *)
(* each public function after its guards).                                 *)
(***************************************************************************)
post_ante(s, player_index) ==
  LET amount == get_effective_ante(s, player_index)
  IN  Log([s EXCEPT !.ante_posting_statuses[player_index] = FALSE,
                    !.bets[player_index] = amount,
                    !.stacks[player_index] = @ - amount,
                    !.payoffs[player_index] = @ - amount],
          Rec("AntePosting", player_index, amount, <<>>))

collect_bets(s) ==
  Log([s EXCEPT !.bet_collection_status = FALSE,
                !.bets = [i \in Players(s) |-> 0]],
      Rec("BetCollection", None, SumOver(s.bets, Players(s)), <<>>))

post_blind_or_straddle(s, player_index) ==
  LET amount == get_effective_blind_or_straddle(s, player_index)
  IN  Log([s EXCEPT !.blind_or_straddle_posting_statuses[player_index] = FALSE,
                    !.bets[player_index] = @ + amount,
                    !.stacks[player_index] = @ - amount,
                    !.payoffs[player_index] = @ - amount],
          Rec("BlindOrStraddlePosting", player_index, amount, <<>>))

\* for i in indices { post_ante(Some(i)) }: the pending posters in ascending order
RECURSIVE post_all_antes(_)
post_all_antes(s) ==
  IF ante_poster_indices(s) = {} THEN s
  ELSE post_all_antes(post_ante(s, First(ante_poster_indices(s))))

RECURSIVE post_all_blinds_or_straddles(_)
post_all_blinds_or_straddles(s) ==
  IF blind_or_straddle_poster_indices(s) = {} THEN s
  ELSE post_all_blinds_or_straddles(
         post_blind_or_straddle(s, First(blind_or_straddle_poster_indices(s))))

(***************************************************************************)
(* Game flow state transitions.  begin_showdown and begin_chips_pushing    *)
(* have empty bodies in the source; only the position is recorded.         *)
(***************************************************************************)
begin_showdown(s) == [s EXCEPT !.phase = "showdown"]

begin_chips_pushing(s) == [s EXCEPT !.phase = "chips_pushing"]

RECURSIVE begin_bet_collection(_)

end_betting(s) == begin_bet_collection([s EXCEPT !.actor_indices = <<>>])

run_betting_automation(s) ==
  LET active_players == ActivePlayers(s)
      max_bet == MaxOver(s.bets, Players(s))
      all_acted == \A i \in active_players : i \in s.acted_player_indices
      bets_settled == \A i \in active_players :
                        s.bets[i] = max_bet \/ s.stacks[i] = 0
  IN  IF Cardinality(active_players) <= 1 THEN end_betting(s)
      ELSE IF all_acted /\ bets_settled THEN end_betting(s)
      ELSE s

\* rposition(|b| b > 0).unwrap_or(s.player_count - 1)
LastBlindIndex(s) ==
  LET posted == {i \in Players(s) : s.blinds_or_straddles[i] > 0}
  IN  IF posted = {} THEN s.player_count - 1
      ELSE CHOOSE i \in posted : \A j \in posted : j <= i

\* while !statuses[current] { current = (current + 1) % s.player_count }
NextActiveFrom(s, start) ==
  LET steps == {k \in 0 .. (s.player_count - 1) :
                  s.statuses[(start + k) % s.player_count]}
  IN  (start + First(steps)) % s.player_count

\* a variant that looks for the first active player from the last seat down
last_active_index(s) ==
  IF ActivePlayers(s) = {} THEN 0
  ELSE CHOOSE i \in ActivePlayers(s) : \A j \in ActivePlayers(s) : j <= i

\* (0..s.player_count).find(|&i| s.statuses[i]).unwrap_or(0)
first_active_index(s) ==
  IF ActivePlayers(s) = {} THEN 0 ELSE First(ActivePlayers(s))

begin_betting(s) ==
  IF s.street_index = None THEN Panic(s)
  ELSE
    LET street == s.streets[s.street_index + 1] IN
    IF street.opening # "Position" THEN Panic(s)
    ELSE IF s.street_index = 0 /\ ActivePlayers(s) = {} THEN Panic(s)
    ELSE
      LET opener ==
            IF s.street_index = 0
            THEN NextActiveFrom(s, (LastBlindIndex(s) + 1) % s.player_count)
            ELSE first_active_index(s)
          eligible(i) == s.statuses[i] /\ s.stacks[i] > 0
      IN  run_betting_automation(
            [s EXCEPT !.phase = "betting",
                      !.opener_index = opener,
                      !.acted_player_indices = {},
                      !.completion_betting_or_raising_amount = 0,
                      !.completion_betting_or_raising_count = 0,
                      !.actor_indices = SelectSeq(CyclicSeats(s.player_count, opener), eligible)])

end_dealing(s) == begin_betting(s)

RECURSIVE run_dealing_automation(_)

\* burn_card after its guard; card = None draws from the top of the deck
burn_card(s, card) ==
  IF card = None /\ s.deck_cards = <<>> THEN Panic(s)
  ELSE
    LET card_to_burn == IF card = None THEN Head(s.deck_cards) ELSE card
        deck == IF card = None THEN Tail(s.deck_cards) ELSE s.deck_cards
    IN  run_dealing_automation(
          Log([s EXCEPT !.deck_cards = deck,
                        !.card_burning_status = FALSE,
                        !.burn_cards = Append(@, card_to_burn)],
              Rec("CardBurning", None, 0, <<card_to_burn>>)))

\* a variant of deal_hole that hands every card over face down
deal_hole_face_down(s, given, cards, player_index) ==
  IF ~given /\ s.deck_cards = <<>> THEN Panic(s)
  ELSE
    LET dealt_cards == IF given THEN cards ELSE <<Head(s.deck_cards)>>
        deck == IF given THEN s.deck_cards ELSE Tail(s.deck_cards)
        n == Len(dealt_cards)
        pending == s.hole_dealing_statuses[player_index]
    IN  run_dealing_automation(
          Log([s EXCEPT !.deck_cards = deck,
                        !.hole_dealing_statuses[player_index] =
                            SubSeq(pending, n + 1, Len(pending)),
                        !.hole_cards[player_index] = @ \o dealt_cards,
                        !.hole_card_statuses[player_index] =
                            @ \o [k \in 1 .. n |-> FALSE]],
              Rec("HoleDealing", player_index, 0, dealt_cards)))

\* deal_hole after its guards; given = FALSE is cards = None (one card drawn)
deal_hole(s, given, cards, player_index) ==
  IF ~given /\ s.deck_cards = <<>> THEN Panic(s)
  ELSE
    LET dealt_cards == IF given THEN cards ELSE <<Head(s.deck_cards)>>
        deck == IF given THEN s.deck_cards ELSE Tail(s.deck_cards)
        n == Len(dealt_cards)
        pending == s.hole_dealing_statuses[player_index]
        flags == SubSeq(pending, 1, n)
    IN  run_dealing_automation(
          Log([s EXCEPT !.deck_cards = deck,
                        !.hole_dealing_statuses[player_index] =
                            SubSeq(pending, n + 1, Len(pending)),
                        !.hole_cards[player_index] = @ \o dealt_cards,
                        !.hole_card_statuses[player_index] = @ \o flags],
              Rec("HoleDealing", player_index, 0, dealt_cards)))

\* while hole_dealee_index().is_some() { deal_hole(None, None, None).unwrap() }
RECURSIVE deal_all_holes(_)
deal_all_holes(s) ==
  IF s.panicked \/ hole_dealee_index(s) = None THEN s
  ELSE deal_all_holes(deal_hole(s, FALSE, <<>>, hole_dealee_index(s)))

run_dealing_automation(s) ==
  LET dealing_done ==
        /\ ~s.card_burning_status
        /\ \A i \in Players(s) : s.hole_dealing_statuses[i] = <<>>
        /\ \A b \in 1 .. StartingBoardCount : s.board_dealing_counts[b] = 0
        /\ \A i \in Players(s) : ~s.standing_pat_or_discarding_statuses[i]
  IN  IF s.panicked THEN s
      ELSE IF dealing_done THEN end_dealing(s)
      ELSE IF "CardBurning" \in s.automations /\ s.card_burning_status
           THEN burn_card(s, None)
      ELSE IF "HoleDealing" \in s.automations /\ hole_dealee_index(s) # None
           THEN deal_all_holes(s)
      ELSE s

begin_dealing(s) ==
  LET new_street_index == IF s.street_index = None THEN 0
                          ELSE s.street_index + 1
      street == s.streets[new_street_index + 1]
  IN  IF new_street_index >= Len(s.streets) THEN Panic(s)
      ELSE run_dealing_automation(
        [s EXCEPT !.phase = "dealing",
                  !.street_index = new_street_index,
                  !.card_burning_status = street.card_burning_status,
                  !.hole_dealing_statuses =
                      [i \in Players(s) |->
                         IF s.statuses[i]
                         THEN s.hole_dealing_statuses[i] \o street.hole_dealing_statuses
                         ELSE s.hole_dealing_statuses[i]],
                  !.standing_pat_or_discarding_statuses =
                      [i \in Players(s) |->
                         IF s.statuses[i] THEN street.draw_status
                         ELSE s.standing_pat_or_discarding_statuses[i]],
                  !.board_dealing_counts =
                      [b \in 1 .. StartingBoardCount |-> street.board_dealing_count]])

end_blind_or_straddle_posting(s) == begin_dealing(s)

\* a variant that goes on to the dealing without waiting for the blinds
blinds_not_awaited(s) == end_blind_or_straddle_posting(s)

run_blind_or_straddle_posting_automation(s) ==
  LET posted == IF "BlindOrStraddlePosting" \in s.automations
                THEN post_all_blinds_or_straddles(s) ELSE s
  IN  IF blind_or_straddle_poster_indices(posted) = {}
      THEN end_blind_or_straddle_posting(posted)
      ELSE posted

begin_blind_or_straddle_posting(s) ==
  run_blind_or_straddle_posting_automation(
    [s EXCEPT !.phase = "blind_or_straddle_posting",
              !.blind_or_straddle_posting_statuses =
                  [i \in Players(s) |-> get_effective_blind_or_straddle(s, i) > 0]])

end_bet_collection(s) ==
  IF Cardinality(ActivePlayers(s)) <= 1 THEN begin_chips_pushing(s)
  ELSE IF s.street_index = None THEN begin_blind_or_straddle_posting(s)
  ELSE IF s.street_index = Len(s.streets) - 1 THEN begin_showdown(s)
  ELSE begin_dealing(s)

\* a variant that leaves every collection to the caller
collection_left_to_caller(s) ==
  IF ~s.bet_collection_status THEN end_bet_collection(s) ELSE s

run_bet_collection_automation(s) ==
  LET collected == IF "BetCollection" \in s.automations /\ s.bet_collection_status
                   THEN collect_bets(s) ELSE s
  IN  IF ~collected.bet_collection_status THEN end_bet_collection(collected)
      ELSE collected

begin_bet_collection(s) ==
  run_bet_collection_automation(
    [s EXCEPT !.phase = "bet_collection",
              !.bet_collection_status = \E i \in Players(s) : s.bets[i] > 0])

end_ante_posting(s) == begin_bet_collection(s)

run_ante_posting_automation(s) ==
  LET posted == IF "AntePosting" \in s.automations THEN post_all_antes(s) ELSE s
  IN  IF ante_poster_indices(posted) = {} THEN end_ante_posting(posted)
      ELSE posted

begin_ante_posting(s) ==
  run_ante_posting_automation(
    [s EXCEPT !.phase = "ante_posting",
              !.ante_posting_statuses =
                  [i \in Players(s) |-> get_effective_ante(s, i) > 0]])

begin(s) == begin_ante_posting(s)

(***************************************************************************)
(* Betting operations (after actor_index() has returned the front of the   *)
(* actor queue).                                                           *)
(***************************************************************************)
\* advance_actor: the front of the queue leaves it and has acted
advance_actor(s) ==
  IF s.actor_indices = <<>> THEN s
  ELSE [s EXCEPT !.actor_indices = Tail(@),
                 !.acted_player_indices = @ \cup {Head(s.actor_indices)}]

fold(s) ==
  LET player_index == Head(s.actor_indices)
      a == advance_actor(s)
  IN  run_betting_automation(
        Log([a EXCEPT !.statuses[player_index] = FALSE,
                      !.mucked_cards = @ \o s.hole_cards[player_index],
                      !.hole_cards[player_index] = <<>>],
            Rec("Folding", player_index, 0, <<>>)))

\* a variant that calls the whole difference whatever the stack
call_uncapped(s) ==
  LET player_index == Head(s.actor_indices)
      max_bet == MaxOver(s.bets, Players(s))
      amount_to_call == max_bet - s.bets[player_index]
      a == advance_actor(s)
  IN  run_betting_automation(
        Log([a EXCEPT !.bets[player_index] = @ + amount_to_call,
                      !.stacks[player_index] = @ - amount_to_call,
                      !.payoffs[player_index] = @ - amount_to_call],
            Rec("CheckingOrCalling", player_index, amount_to_call, <<>>)))

check_or_call(s) ==
  LET player_index == Head(s.actor_indices)
      max_bet == MaxOver(s.bets, Players(s))
      amount_to_call == Min(max_bet - s.bets[player_index], s.stacks[player_index])
      a == advance_actor(s)
  IN  run_betting_automation(
        Log([a EXCEPT !.bets[player_index] = @ + amount_to_call,
                      !.stacks[player_index] = @ - amount_to_call,
                      !.payoffs[player_index] = @ - amount_to_call],
            Rec("CheckingOrCalling", player_index, amount_to_call, <<>>)))

\* a variant that leaves the players without chips in the rebuilt queue
raise_keeping_all_in_players(s, amount) ==
  LET player_index == Head(s.actor_indices)
      delta == amount - s.bets[player_index]
      paid == [s EXCEPT !.bets[player_index] = amount,
                        !.stacks[player_index] = @ - delta,
                        !.payoffs[player_index] = @ - delta]
      eligible(i) == paid.statuses[i]
  IN  run_betting_automation(
        Log([paid EXCEPT !.opener_index = player_index,
                         !.completion_betting_or_raising_count = @ + 1,
                         !.actor_indices =
                             SelectSeq(CyclicSeats(s.player_count, player_index + 1), eligible),
                         !.acted_player_indices = {player_index}],
            Rec("CompletionBettingOrRaisingTo", player_index, amount, <<>>)))

\* a variant that keeps the acted set instead of clearing it
raise_without_reopening(s, amount) ==
  LET player_index == Head(s.actor_indices)
      delta == amount - s.bets[player_index]
      paid == [s EXCEPT !.bets[player_index] = amount,
                        !.stacks[player_index] = @ - delta,
                        !.payoffs[player_index] = @ - delta]
      eligible(i) == paid.statuses[i] /\ paid.stacks[i] > 0
  IN  run_betting_automation(
        Log([paid EXCEPT !.opener_index = player_index,
                         !.completion_betting_or_raising_count = @ + 1,
                         !.actor_indices =
                             SelectSeq(CyclicSeats(s.player_count, player_index + 1), eligible),
                         !.acted_player_indices = @ \cup {player_index}],
            Rec("CompletionBettingOrRaisingTo", player_index, amount, <<>>)))

complete_bet_or_raise_to(s, amount) ==
  LET player_index == Head(s.actor_indices)
      delta == amount - s.bets[player_index]
      paid == [s EXCEPT !.bets[player_index] = amount,
                        !.stacks[player_index] = @ - delta,
                        !.payoffs[player_index] = @ - delta]
      eligible(i) == paid.statuses[i] /\ paid.stacks[i] > 0
  IN  run_betting_automation(
        Log([paid EXCEPT !.opener_index = player_index,
                         !.completion_betting_or_raising_count = @ + 1,
                         !.actor_indices =
                             SelectSeq(CyclicSeats(s.player_count, player_index + 1), eligible),
                         !.acted_player_indices = {player_index}],
            Rec("CompletionBettingOrRaisingTo", player_index, amount, <<>>)))

(***************************************************************************)
(* pots(): the side pots recomputed from the contributions.                *)
(***************************************************************************)
\* utilities::rake, the default rake function: no rake
rake(amount) == <<0, amount>>

contributions(s) == [i \in Players(s) |-> (0 - s.payoffs[i]) + s.bets[i]]

\* the positive contributions, sorted and deduplicated
RECURSIVE SortedLevels(_)
SortedLevels(S) ==
  IF S = {} THEN <<>>
  ELSE LET m == CHOOSE x \in S : \A y \in S : x <= y
       IN  <<m>> \o SortedLevels(S \ {m})

unique_contributions(s) ==
  SortedLevels({contributions(s)[i] : i \in Players(s)} \ {c \in {contributions(s)[i] : i \in Players(s)} : c <= 0})

RECURSIVE pots_from(_, _, _)
pots_from(s, levels, last_contribution) ==
  IF levels = <<>> THEN <<>>
  ELSE
    LET contribution == Head(levels)
        payers == {i \in Players(s) : contributions(s)[i] >= contribution}
        pot_amount == Cardinality(payers) * (contribution - last_contribution)
        pot == [raked_amount |-> rake(pot_amount)[1],
                unraked_amount |-> rake(pot_amount)[2],
                player_indices |-> {i \in payers : s.statuses[i]}]
    IN  (IF pot_amount > 0 THEN <<pot>> ELSE <<>>)
          \o pots_from(s, Tail(levels), contribution)

pots(s) == pots_from(s, unique_contributions(s), 0)

\* Pot::amount
amount(pot) == pot.raked_amount + pot.unraked_amount

RECURSIVE TotalPotAmount(_)
TotalPotAmount(ps) ==
  IF ps = <<>> THEN 0 ELSE amount(Head(ps)) + TotalPotAmount(Tail(ps))

(***************************************************************************)
(* Configurations handed to StateBuilder.                                  *)
(***************************************************************************)
AllAutomations ==
  {"AntePosting", "BetCollection", "BlindOrStraddlePosting", "CardBurning",
   "HoleDealing", "BoardDealing", "RunoutCountSelection",
   "HoleCardsShowingOrMucking", "HandKilling", "ChipsPushing", "ChipsPulling"}

\* Street::new with valid arguments
Street(burn, holes, board, draw, opening, min_amount, max_count) ==
  [card_burning_status |-> burn, hole_dealing_statuses |-> holes,
   board_dealing_count |-> board, draw_status |-> draw, opening |-> opening,
   min_completion_betting_or_raising_amount |-> min_amount,
   max_completion_betting_or_raising_count |-> max_count]

\* the street shapes of the hold'em factories of games.rs, cut down to one hole
\* card and two streets: hole cards first, then a burn and a board card
BoardStreets(small_bet, big_bet, max_count) ==
  <<Street(FALSE, <<FALSE>>, 0, FALSE, "Position", small_bet, max_count),
    Street(TRUE, <<>>, 1, FALSE, "Position", big_bet, max_count)>>

\* two streets without board cards: one card down, then a burn and one card up
DownUpStreets(min_bet, max_count) ==
  <<Street(FALSE, <<FALSE>>, 0, FALSE, "Position", min_bet, max_count),
    Street(TRUE, <<TRUE>>, 0, FALSE, "Position", min_bet, max_count)>>

\* clean_values: a vector indexed by seat 0 .. count-1
Vec(q) == [i \in 0 .. (Len(q) - 1) |-> q[i + 1]]

Setup(n, autos, structure, street_list, raw_antes, raw_blinds, raw_stacks) ==
  [player_count |-> n, automations |-> autos, betting_structure |-> structure,
   ante_trimming_status |-> FALSE,
   streets |-> street_list, antes |-> Vec(raw_antes),
   blinds_or_straddles |-> Vec(raw_blinds), starting_stacks |-> Vec(raw_stacks)]

\* the configuration whose caller collects the bets of each round
CollectingSetup ==
  Setup(2, AllAutomations \ {"BetCollection"}, "NoLimit", DownUpStreets(2, None),
        <<0, 0>>, <<1, 2>>, <<6, 6>>)

\* antes that the short stack cannot cover, with ante trimming switched on
TrimmingSetup ==
  [Setup(2, AllAutomations, "NoLimit", DownUpStreets(2, None),
         <<2, 3>>, <<0, 0>>, <<1, 6>>) EXCEPT !.ante_trimming_status = TRUE]

Setups ==
  {Setup(2, AllAutomations, "NoLimit", DownUpStreets(2, None),
         <<0, 0>>, <<1, 2>>, <<6, 6>>),
   Setup(3, AllAutomations, "NoLimit", DownUpStreets(2, None),
         <<1, 1, 1>>, <<1, 2, 0>>, <<4, 2, 6>>),
   Setup(3, AllAutomations, "FixedLimit", DownUpStreets(2, 1),
         <<0, 0, 0>>, <<1, 2, 0>>, <<6, 6, 6>>),
   Setup(2, AllAutomations, "PotLimit", BoardStreets(2, 2, None),
         <<1, 1>>, <<1, 2>>, <<6, 6>>),
   Setup(2, AllAutomations, "PotLimit", DownUpStreets(2, None),
         <<0, 0>>, <<0, 0>>, <<2, 6>>),
   CollectingSetup,
   Setup(2, {}, "NoLimit", DownUpStreets(2, None),
         <<1, 1>>, <<1, 2>>, <<2, 6>>),
   Setup(2, {"AntePosting", "BetCollection"}, "NoLimit", DownUpStreets(2, None),
         <<1, 1>>, <<1, 2>>, <<6, 6>>),
   Setup(2, {}, "NoLimit", DownUpStreets(2, None),
         <<0, 0>>, <<0, 0>>, <<6, 6>>),
   TrimmingSetup}

\* Deck: the configured deck.  Shuffles: the outcomes of shuffled(&deck) that
\* are followed; no branch of State reads the identity of a card
Deck == [k \in 1 .. DeckSize |-> k]
Shuffles == {Deck}

\* explicit arguments of burn_card and deal_hole
ExplicitCards == {1}
ExplicitCardLists == {<<>>, <<1>>}
\* the seat named in a deal_hole call that hands over an empty card list
EmptyDealSeats == {0}

(***************************************************************************)
(* StateBuilder::build: the State literal, then begin().                   *)
(***************************************************************************)
Literal(c, deck) ==
  LET seats == 0 .. (c.player_count - 1) IN
  [automations |-> c.automations, streets |-> c.streets,
   betting_structure |-> c.betting_structure,
   ante_trimming_status |-> c.ante_trimming_status, antes |-> c.antes,
   blinds_or_straddles |-> c.blinds_or_straddles,
   starting_stacks |-> c.starting_stacks, player_count |-> c.player_count,
   deck_cards |-> deck,
   board_cards |-> [b \in 1 .. StartingBoardCount |-> <<>>],
   mucked_cards |-> <<>>, burn_cards |-> <<>>,
   statuses |-> [i \in seats |-> TRUE],
   bets |-> [i \in seats |-> 0],
   stacks |-> c.starting_stacks,
   payoffs |-> [i \in seats |-> 0],
   hole_cards |-> [i \in seats |-> <<>>],
   hole_card_statuses |-> [i \in seats |-> <<>>],
   street_index |-> None, status |-> TRUE, operations |-> <<>>,
   ante_posting_statuses |-> [i \in seats |-> FALSE],
   bet_collection_status |-> FALSE,
   blind_or_straddle_posting_statuses |-> [i \in seats |-> FALSE],
   card_burning_status |-> FALSE,
   hole_dealing_statuses |-> [i \in seats |-> <<>>],
   board_dealing_counts |-> [b \in 1 .. StartingBoardCount |-> 0],
   standing_pat_or_discarding_statuses |-> [i \in seats |-> FALSE],
   actor_indices |-> <<>>, opener_index |-> None,
   completion_betting_or_raising_amount |-> 0,
   completion_betting_or_raising_count |-> 0,
   acted_player_indices |-> {},
   phase |-> "build", panicked |-> FALSE]

build(c, deck) == begin(Literal(c, deck))

\* after a panic the State is gone: the model keeps the configuration and shows
\* the other fields as the State literal has them, marked panicked
Aborted(s) == Panic(Literal(s, Deck))

\* the State fields hold the values of the record s
Holds(s) ==
  /\ deck_cards = s.deck_cards
  /\ board_cards = s.board_cards
  /\ mucked_cards = s.mucked_cards
  /\ burn_cards = s.burn_cards
  /\ statuses = s.statuses
  /\ bets = s.bets
  /\ stacks = s.stacks
  /\ payoffs = s.payoffs
  /\ hole_cards = s.hole_cards
  /\ hole_card_statuses = s.hole_card_statuses
  /\ street_index = s.street_index
  /\ status = s.status
  /\ operations = s.operations
  /\ ante_posting_statuses = s.ante_posting_statuses
  /\ bet_collection_status = s.bet_collection_status
  /\ blind_or_straddle_posting_statuses = s.blind_or_straddle_posting_statuses
  /\ card_burning_status = s.card_burning_status
  /\ hole_dealing_statuses = s.hole_dealing_statuses
  /\ board_dealing_counts = s.board_dealing_counts
  /\ standing_pat_or_discarding_statuses = s.standing_pat_or_discarding_statuses
  /\ actor_indices = s.actor_indices
  /\ opener_index = s.opener_index
  /\ completion_betting_or_raising_amount = s.completion_betting_or_raising_amount
  /\ completion_betting_or_raising_count = s.completion_betting_or_raising_count
  /\ acted_player_indices = s.acted_player_indices
  /\ phase = s.phase
  /\ panicked = s.panicked

\* LookupBuilder::default, statics not yet forced, nothing called
LookupBuilder_default == [entries |-> <<>>, entry_count |-> 0]
Uninitialized == <<>>
NoCall == [call |-> "none"]

LibraryIdle ==
  /\ builder = LookupBuilder_default
  /\ lookups = Uninitialized
  /\ returned = NoCall

InitWith(c, calls) ==
  /\ automations = c.automations
  /\ streets = c.streets
  /\ betting_structure = c.betting_structure
  /\ ante_trimming_status = c.ante_trimming_status
  /\ antes = c.antes
  /\ blinds_or_straddles = c.blinds_or_straddles
  /\ starting_stacks = c.starting_stacks
  /\ player_count = c.player_count
  /\ calls_left = calls
  /\ LibraryIdle
  /\ \E deck \in Shuffles :
       \E s \in {build(c, deck)} :
       /\ ~s.panicked
       /\ Holds(s)

\* the caller who collects the bets needs one more call to finish a round
CallBudget(c) == IF c = CollectingSetup THEN MaxCalls + 1 ELSE MaxCalls

Init == \E c \in Setups : InitWith(c, CallBudget(c))

(***************************************************************************)
(* The public operations.  An operation that returns Err changes nothing   *)
(* and is not a step; one that panics ends the run.                        *)
(***************************************************************************)
Seats == 0 .. (player_count - 1)

CallerMayAct == ~panicked /\ calls_left > 0

Return(result) ==
  /\ \E r \in {result} :
       IF r.panicked THEN Install(Aborted(r)) ELSE Install(r)
  /\ calls_left' = calls_left - 1
  /\ UNCHANGED config
  /\ UNCHANGED library

PostAnte ==
  /\ CallerMayAct
  /\ \E player_index \in Seats \cup {None} :
       IF player_index = None /\ ante_poster_indices(Cur) = {}
       THEN Return(Panic(Cur))
       ELSE LET p == IF player_index = None THEN First(ante_poster_indices(Cur))
                     ELSE player_index
            IN  /\ ante_posting_statuses[p]
                /\ Return(post_ante(Cur, p))

CollectBets ==
  /\ CallerMayAct
  /\ bet_collection_status
  /\ Return(collect_bets(Cur))

PostBlindOrStraddle ==
  /\ CallerMayAct
  /\ \E player_index \in Seats \cup {None} :
       IF player_index = None /\ blind_or_straddle_poster_indices(Cur) = {}
       THEN Return(Panic(Cur))
       ELSE LET p == IF player_index = None
                     THEN First(blind_or_straddle_poster_indices(Cur))
                     ELSE player_index
            IN  /\ blind_or_straddle_posting_statuses[p]
                /\ Return(post_blind_or_straddle(Cur, p))

BurnCard ==
  /\ CallerMayAct
  /\ card_burning_status
  /\ \E card \in ExplicitCards \cup {None} : Return(burn_card(Cur, card))

DealHole ==
  /\ CallerMayAct
  /\ \E given \in BOOLEAN, cards \in ExplicitCardLists,
        player_index \in Seats \cup {None} :
       LET p == IF player_index = None THEN hole_dealee_index(Cur)
                ELSE player_index
           num_to_deal == IF given THEN Len(cards) ELSE 1
       IN  /\ given \/ cards = <<>>
           /\ (given /\ cards = <<>>) => player_index \in EmptyDealSeats
           /\ p # None
           /\ Len(hole_dealing_statuses[p]) >= num_to_deal
           /\ Return(deal_hole(Cur, given, cards, p))

Fold ==
  /\ CallerMayAct
  /\ actor_indices # <<>>
  /\ Return(fold(Cur))

CheckOrCall ==
  /\ CallerMayAct
  /\ actor_indices # <<>>
  /\ Return(check_or_call(Cur))

CompleteBetOrRaiseTo ==
  /\ CallerMayAct
  /\ actor_indices # <<>>
  /\ \E x \in 1 .. MaxAmount : Return(complete_bet_or_raise_to(Cur, x))

Next ==
  \/ PostAnte
  \/ CollectBets
  \/ PostBlindOrStraddle
  \/ BurnCard
  \/ DealHole
  \/ Fold
  \/ CheckOrCall
  \/ CompleteBetOrRaiseTo

Spec == Init /\ [][Next]_vars

(***************************************************************************)
(* A wider caller: complete_bet_or_raise_to may also be given an amount    *)
(* below zero (amount is an i64) or the actor's whole stack, and the hand  *)
(* may also be one of three players with stacks 100, 50 and 200 or 6, 3    *)
(* and 6, or one whose last blind/straddle is configured below zero        *)
(* (get_effective_blind_or_straddle posts its absolute value).             *)
(***************************************************************************)
NegativeAmounts == {0 - 1}

SidePotSetup ==
  Setup(3, AllAutomations, "NoLimit", DownUpStreets(2, None),
        <<0, 0, 0>>, <<0, 0, 0>>, <<100, 50, 200>>)

ShortMiddleSetup ==
  Setup(3, AllAutomations, "NoLimit", DownUpStreets(2, None),
        <<0, 0, 0>>, <<0, 0, 0>>, <<6, 3, 6>>)

SignedStraddleSetup ==
  Setup(3, AllAutomations, "NoLimit", DownUpStreets(2, None),
        <<0, 0, 0>>, <<1, 2, 0 - 2>>, <<6, 6, 6>>)

CompleteBetOrRaiseToNegative ==
  /\ CallerMayAct
  /\ actor_indices # <<>>
  /\ \E x \in NegativeAmounts : Return(complete_bet_or_raise_to(Cur, x))

CompleteBetOrRaiseToAllIn ==
  /\ CallerMayAct
  /\ actor_indices # <<>>
  /\ LET p == Head(actor_indices)
     IN  Return(complete_bet_or_raise_to(Cur, bets[p] + stacks[p]))

WideInit ==
  \/ Init
  \/ InitWith(SidePotSetup, MaxCalls)
  \/ InitWith(SignedStraddleSetup, MaxCalls)
  \/ InitWith(ShortMiddleSetup, MaxCalls)

WideNext ==
  \/ Next
  \/ CompleteBetOrRaiseToNegative
  \/ CompleteBetOrRaiseToAllIn

WideSpec == WideInit /\ [][WideNext]_vars

(***************************************************************************)
(* Construction.  A caller makes streets with Street::new, hands the ones  *)
(* it obtained to a StateBuilder and calls build; the arguments are of any *)
(* kind, valid or not.  Until build returns Ok there is no State: the      *)
(* State fields are shown as the State literal has them, in phase          *)
(* "unbuilt".                                                              *)
(***************************************************************************)
\* the caller makes at most this many streets
MaxStreets == 2
\* StateBuilder::new is called with a player count of 0 .. MaxPlayers
MaxPlayers == 3

Ok(value) == [ok |-> TRUE, value |-> value, error |-> ""]
Err(message) == [ok |-> FALSE, value |-> None, error |-> message]

Street_new(burn, holes, board, draw, opening, min_amount, max_count) ==
  IF holes # <<>> /\ draw
  THEN Err("Only one of hole dealing or drawing is permitted.")
  ELSE IF min_amount <= 0
  THEN Err("Non-positive minimum bet/raise amount supplied.")
  ELSE Ok(Street(burn, holes, board, draw, opening, min_amount, max_count))

\* a variant that accepts any player count
build_any_player_count(c, deck) ==
  IF c.streets = <<>> THEN Err("Streets cannot be empty")
  ELSE Ok(build(c, deck))

StateBuilder_build(c, deck) ==
  IF c.player_count < 2 THEN Err("Player count must be at least 2")
  ELSE IF c.streets = <<>> THEN Err("Streets cannot be empty")
  ELSE Ok(build(c, deck))

fields == <<deck_cards, board_cards, mucked_cards, burn_cards, statuses, bets,
            stacks, payoffs, hole_cards, hole_card_statuses, street_index,
            status, operations, ante_posting_statuses, bet_collection_status,
            blind_or_straddle_posting_statuses, card_burning_status,
            hole_dealing_statuses, board_dealing_counts,
            standing_pat_or_discarding_statuses, actor_indices, opener_index,
            completion_betting_or_raising_amount,
            completion_betting_or_raising_count, acted_player_indices,
            phase, panicked>>

\* StateBuilder::new(n) with all automations, blinds 1 and 2 and stacks of 6
BuilderFor(n) ==
  Setup(n, AllAutomations, "NoLimit", <<>>,
        [i \in 1 .. n |-> 0],
        [i \in 1 .. n |-> IF i <= 2 THEN i ELSE 0],
        [i \in 1 .. n |-> 6])

\* the arguments handed to Street::new
StreetArguments ==
  [card_burning_status : {FALSE},
   hole_dealing_statuses : {<<>>, <<FALSE>>},
   board_dealing_count : {0},
   draw_status : BOOLEAN,
   opening : {"Position"},
   min_completion_betting_or_raising_amount : {0 - 1, 0, 1, 2},
   max_completion_betting_or_raising_count : {None}]

\* no State exists yet: the builder's fields for n players, and the fields of
\* the State that build would fill
NoState(n) ==
  \E c \in {BuilderFor(n)} :
    /\ automations = c.automations
    /\ streets = c.streets
    /\ betting_structure = c.betting_structure
    /\ ante_trimming_status = c.ante_trimming_status
    /\ antes = c.antes
    /\ blinds_or_straddles = c.blinds_or_straddles
    /\ starting_stacks = c.starting_stacks
    /\ player_count = c.player_count
    /\ calls_left = 0
    /\ Holds([Literal(c, Deck) EXCEPT !.phase = "unbuilt"])

ConstructionInit == LibraryIdle /\ \E n \in 0 .. MaxPlayers : NoState(n)

StreetNew ==
  /\ phase = "unbuilt"
  /\ returned.call # "StateBuilder::build"
  /\ Len(streets) < MaxStreets
  /\ \E a \in StreetArguments :
       \E r \in {Street_new(a.card_burning_status, a.hole_dealing_statuses,
                            a.board_dealing_count, a.draw_status, a.opening,
                            a.min_completion_betting_or_raising_amount,
                            a.max_completion_betting_or_raising_count)} :
         /\ returned' = [call |-> "Street::new", args |-> a, result |-> r]
         /\ streets' = IF r.ok THEN Append(streets, r.value) ELSE streets
  /\ UNCHANGED <<automations, betting_structure, ante_trimming_status, antes,
                 blinds_or_straddles, starting_stacks, player_count>>
  /\ UNCHANGED <<fields, calls_left, builder, lookups>>

Build ==
  /\ phase = "unbuilt"
  /\ returned.call # "StateBuilder::build"
  /\ \E deck \in Shuffles :
       \E r \in {StateBuilder_build(Cur, deck)} :
         /\ returned' = [call |-> "StateBuilder::build", args |-> <<>>,
                         result |-> [ok |-> r.ok, value |-> None, error |-> r.error]]
         /\ IF ~r.ok THEN UNCHANGED fields
            ELSE IF r.value.panicked THEN Install(Aborted(r.value))
            ELSE Install(r.value)
  /\ UNCHANGED <<config, calls_left, builder, lookups>>

ConstructionNext ==
  \/ StreetNew
  \/ Build

ConstructionSpec == ConstructionInit /\ [][ConstructionNext]_vars

(***************************************************************************)
(* Cards (utilities.rs).  A Rank and a Suit are named as the enum variants *)
(* are; a string is a sequence of one-character strings, so that Display   *)
(* and parsing are conversions that can be wrong.                          *)
(***************************************************************************)
Ranks ==
  {"Ace", "Deuce", "Trey", "Four", "Five", "Six", "Seven", "Eight", "Nine",
   "Ten", "Jack", "Queen", "King", "Unknown"}

Suits == {"Club", "Diamond", "Heart", "Spade", "Unknown"}

\* #[strum(serialize = ..)] of Rank: Display
Rank_to_string(rank) ==
  CASE rank = "Ace" -> "A" [] rank = "Deuce" -> "2" [] rank = "Trey" -> "3"
    [] rank = "Four" -> "4" [] rank = "Five" -> "5" [] rank = "Six" -> "6"
    [] rank = "Seven" -> "7" [] rank = "Eight" -> "8" [] rank = "Nine" -> "9"
    [] rank = "Ten" -> "T" [] rank = "Jack" -> "J" [] rank = "Queen" -> "Q"
    [] rank = "King" -> "K" [] rank = "Unknown" -> "?"

\* #[strum(serialize = ..)] of Suit: Display
Suit_to_string(suit) ==
  CASE suit = "Club" -> "c" [] suit = "Diamond" -> "d" [] suit = "Heart" -> "h"
    [] suit = "Spade" -> "s" [] suit = "Unknown" -> "?"

\* EnumString: the variant whose serialization is the string, or an error
Rank_from_str(c) ==
  IF \E rank \in Ranks : Rank_to_string(rank) = c
  THEN Ok(CHOOSE rank \in Ranks : Rank_to_string(rank) = c)
  ELSE Err("Invalid rank")

Suit_from_str(c) ==
  IF \E suit \in Suits : Suit_to_string(suit) = c
  THEN Ok(CHOOSE suit \in Suits : Suit_to_string(suit) = c)
  ELSE Err("Invalid suit")

STANDARD ==
  <<"Deuce", "Trey", "Four", "Five", "Six", "Seven", "Eight", "Nine", "Ten",
    "Jack", "Queen", "King", "Ace">>
SHORT_DECK_HOLDEM ==
  <<"Six", "Seven", "Eight", "Nine", "Ten", "Jack", "Queen", "King", "Ace">>
REGULAR ==
  <<"Ace", "Deuce", "Trey", "Four", "Five", "Six", "Seven", "Eight", "Nine",
    "Ten", "Jack", "Queen", "King">>
EIGHT_OR_BETTER_LOW ==
  <<"Ace", "Deuce", "Trey", "Four", "Five", "Six", "Seven", "Eight">>
KUHN_POKER == <<"Jack", "Queen", "King">>

Card(rank, suit) == [rank |-> rank, suit |-> suit]

Range(q) == {q[i] : i \in 1 .. Len(q)}

get_ranks(cards) == [i \in 1 .. Len(cards) |-> cards[i].rank] \o <<>>

get_suits(cards) == [i \in 1 .. Len(cards) |-> cards[i].suit] \o <<>>

are_suited(cards) == Cardinality(Range(get_suits(cards))) <= 1

are_rainbow(cards) == Cardinality(Range(get_suits(cards))) = Len(cards)

\* impl Display for Card, and the collect::<String>() of a card list
Card_to_string(card) == <<Rank_to_string(card.rank), Suit_to_string(card.suit)>>

RECURSIVE cards_to_string(_)
cards_to_string(cards) ==
  IF cards = <<>> THEN <<>>
  ELSE Card_to_string(Head(cards)) \o cards_to_string(Tail(cards))

\* s.replace("10", "T")
RECURSIVE replace_10(_)
replace_10(s) ==
  IF Len(s) < 2 THEN s
  ELSE IF s[1] = "1" /\ s[2] = "0" THEN <<"T">> \o replace_10(SubSeq(s, 3, Len(s)))
  ELSE <<Head(s)>> \o replace_10(Tail(s))

\* split_whitespace: the maximal runs without a blank, in order
RECURSIVE split_whitespace(_, _)
split_whitespace(s, content) ==
  IF s = <<>> THEN (IF content = <<>> THEN <<>> ELSE <<content>>)
  ELSE IF Head(s) = " "
  THEN (IF content = <<>> THEN <<>> ELSE <<content>>) \o split_whitespace(Tail(s), <<>>)
  ELSE split_whitespace(Tail(s), Append(content, Head(s)))

\* the ? operator on a Result: an Err is returned as it is, an Ok hands its
\* value on
AndThen(result, Continue(_)) ==
  IF result.ok THEN Continue(result.value) ELSE result

\* the inner loop of parse_cards over one content of even length
RECURSIVE parse_content(_)
parse_content(content) ==
  IF content = <<>> THEN Ok(<<>>)
  ELSE AndThen(Rank_from_str(content[1]), LAMBDA rank :
       AndThen(Suit_from_str(content[2]), LAMBDA suit :
       AndThen(parse_content(SubSeq(content, 3, Len(content))), LAMBDA rest :
         Ok(<<Card(rank, suit)>> \o rest))))

RECURSIVE parse_contents(_)
parse_contents(contents) ==
  IF contents = <<>> THEN Ok(<<>>)
  ELSE IF Len(Head(contents)) % 2 # 0
  THEN Err("The length of a card string must be a multiple of 2")
  ELSE AndThen(parse_content(Head(contents)), LAMBDA first :
       AndThen(parse_contents(Tail(contents)), LAMBDA rest :
         Ok(first \o rest)))

parse_cards(s) ==
  parse_contents(
    split_whitespace(SelectSeq(replace_10(s), LAMBDA c : c # ","), <<>>))

(***************************************************************************)
(* Lookups (lookups.rs).                                                   *)
(***************************************************************************)
\* build.rs: the i-th rank character is given the i-th prime
RANK_MULTIPLIERS ==
  [c \in {"A", "2", "3", "4", "5", "6", "7", "8", "9", "T", "J", "Q", "K"} |->
     CASE c = "A" -> 2 [] c = "2" -> 3 [] c = "3" -> 5 [] c = "4" -> 7
       [] c = "5" -> 11 [] c = "6" -> 13 [] c = "7" -> 17 [] c = "8" -> 19
       [] c = "9" -> 23 [] c = "T" -> 29 [] c = "J" -> 31 [] c = "Q" -> 37
       [] c = "K" -> 41]

RECURSIVE hash_ranks(_)
hash_ranks(ranks) ==
  IF ranks = <<>> THEN 1
  ELSE LET rank_char == Rank_to_string(Head(ranks))
       IN  (IF rank_char \in DOMAIN RANK_MULTIPLIERS
            THEN RANK_MULTIPLIERS[rank_char] ELSE 1) * hash_ranks(Tail(ranks))

Reverse(q) == [i \in 1 .. Len(q) |-> q[Len(q) + 1 - i]] \o <<>>

\* itertools combinations: the k-subsequences of q in lexicographic order of
\* their positions
RECURSIVE combinations(_, _)
combinations(q, k) ==
  IF k = 0 THEN << <<>> >>
  ELSE IF Len(q) < k THEN <<>>
  ELSE LET with_head == combinations(Tail(q), k - 1)
       IN  ([i \in 1 .. Len(with_head) |-> <<Head(q)>> \o with_head[i]] \o <<>>)
             \o combinations(Tail(q), k)

RECURSIVE pow(_, _)
pow(base, exponent) == IF exponent = 0 THEN 1 ELSE base * pow(base, exponent - 1)

\* counter is a BTreeMap from multiplicity to count.  The hashes of one sample
\* follow each other; every sample contributes the same number of hashes
RECURSIVE hash_multisets(_, _)
hash_multisets(ranks, counter) ==
  IF DOMAIN counter = {} THEN <<1>>
  ELSE
    LET multiplicity == CHOOSE m \in DOMAIN counter : \A n \in DOMAIN counter : n <= m
        count == counter[multiplicity]
        rest == [m \in DOMAIN counter \ {multiplicity} |-> counter[m]]
        samples == combinations(Reverse(ranks), count)
        parts == [j \in 1 .. Len(samples) |->
                   LET hash_part == pow(hash_ranks(samples[j]), multiplicity)
                       remaining_ranks ==
                         SelectSeq(ranks, LAMBDA r : r \notin Range(samples[j]))
                       partial == hash_multisets(remaining_ranks, rest)
                   IN  [p \in 1 .. Len(partial) |-> hash_part * partial[p]] \o <<>>]
                 \o <<>>
        per_sample == IF Len(samples) = 0 THEN 0 ELSE Len(parts[1])
    IN  [i \in 1 .. (Len(samples) * per_sample) |->
           parts[((i - 1) \div per_sample) + 1][((i - 1) % per_sample) + 1]] \o <<>>

\* Entry { index, label } under every key (hash, suitedness)
add_entry(b, hash, suitednesses, label) ==
  [entries |-> [k \in {<<hash, s>> : s \in suitednesses} |->
                 [index |-> b.entry_count, label |-> label]] @@ b.entries,
   entry_count |-> b.entry_count + 1]

\* add_entry for each hash in turn.  The sequence is halved so that the
\* evaluation does not nest once per hash; the first half is added before the
\* second
RECURSIVE add_entries_in_turn(_, _, _, _)
add_entries_in_turn(b, hashes, suitednesses, label) ==
  IF b.entry_count < 0 \/ Len(hashes) = 0 THEN b
  ELSE IF Len(hashes) = 1 THEN add_entry(b, hashes[1], suitednesses, label)
  ELSE LET mid == Len(hashes) \div 2 IN
       add_entries_in_turn(
         add_entries_in_turn(b, SubSeq(hashes, 1, mid), suitednesses, label),
         SubSeq(hashes, mid + 1, Len(hashes)), suitednesses, label)

add_multisets(b, ranks, counter, suitednesses, label) ==
  add_entries_in_turn(b, Reverse(hash_multisets(ranks, counter)),
                      suitednesses, label)

\* a variant of add_straights that adds the wheel after the other straights
add_straights_wheel_last(b, ranks, count, suitednesses, label) ==
  LET wheel_ranks == <<ranks[Len(ranks)]>> \o SubSeq(ranks, 1, count - 1)
      regular == [i \in 1 .. (Len(ranks) - count + 1) |->
                    hash_ranks(SubSeq(ranks, i, i + count - 1))] \o <<>>
  IN  add_entries_in_turn(b, regular \o <<hash_ranks(wheel_ranks)>>,
                          suitednesses, label)

add_straights(b, ranks, count, suitednesses, label) ==
  LET wheel_ranks == <<ranks[Len(ranks)]>> \o SubSeq(ranks, 1, count - 1)
      regular == [i \in 1 .. (Len(ranks) - count + 1) |->
                    hash_ranks(SubSeq(ranks, i, i + count - 1))] \o <<>>
  IN  add_entries_in_turn(b, <<hash_ranks(wheel_ranks)>> \o regular,
                          suitednesses, label)

\* the place of x in a sorted sequence that holds it
RECURSIVE position(_, _, _, _)
position(sorted, x, low, high) ==
  IF low = high THEN low
  ELSE LET mid == (low + high) \div 2
       IN  IF sorted[mid] < x THEN position(sorted, x, mid + 1, high)
           ELSE position(sorted, x, low, mid)

\* a variant of build that leaves the indices as they are
build_without_reindexing(b) == b.entries

\* LookupBuilder::build: sorted_indices is sorted and deduplicated, and
\* reset_indices maps an old index to its place in it, counted from 0
LookupBuilder_build(b) ==
  LET indices == {b.entries[k].index : k \in DOMAIN b.entries}
      sorted_indices == SelectSeq([i \in 1 .. b.entry_count |-> i - 1] \o <<>>,
                                  LAMBDA j : j \in indices)
      reset_indices(old_index) ==
        position(sorted_indices, old_index, 1, Len(sorted_indices)) - 1
  IN  [k \in DOMAIN b.entries |->
         [b.entries[k] EXCEPT !.index = reset_indices(@)]]

\* the structs implementing Lookup, and fn rank_order of each
LookupTypes ==
  {"StandardLookup", "ShortDeckHoldemLookup", "EightOrBetterLookup",
   "RegularLookup", "BadugiLookup", "StandardBadugiLookup", "KuhnPokerLookup"}

rank_order(lookup_type) ==
  CASE lookup_type = "StandardLookup" -> STANDARD
    [] lookup_type = "ShortDeckHoldemLookup" -> SHORT_DECK_HOLDEM
    [] lookup_type = "EightOrBetterLookup" -> EIGHT_OR_BETTER_LOW
    [] lookup_type = "RegularLookup" -> REGULAR
    [] lookup_type = "BadugiLookup" -> REGULAR
    [] lookup_type = "StandardBadugiLookup" -> STANDARD
    [] lookup_type = "KuhnPokerLookup" -> KUHN_POKER

\* a variant of StandardLookup::add_entries that adds the straights last
add_entries_straights_last(b, ro) ==
  LET b1 == add_multisets(b, ro, 1 :> 5, {FALSE}, "HighCard")
      b2 == add_multisets(b1, ro, (2 :> 1) @@ (1 :> 3), {FALSE}, "OnePair")
      b3 == add_multisets(b2, ro, (2 :> 2) @@ (1 :> 1), {FALSE}, "TwoPair")
      b4 == add_multisets(b3, ro, (3 :> 1) @@ (1 :> 2), {FALSE}, "ThreeOfAKind")
      b6 == add_multisets(b4, ro, 1 :> 5, {TRUE}, "Flush")
      b7 == add_multisets(b6, ro, (3 :> 1) @@ (2 :> 1), {FALSE}, "FullHouse")
      b8 == add_multisets(b7, ro, (4 :> 1) @@ (1 :> 1), {FALSE}, "FourOfAKind")
      b5 == add_straights(b8, ro, 5, {FALSE}, "Straight")
  IN  add_straights(b5, ro, 5, {TRUE}, "StraightFlush")

StandardLookup_add_entries(b, ro) ==
  LET b1 == add_multisets(b, ro, 1 :> 5, {FALSE}, "HighCard")
      b2 == add_multisets(b1, ro, (2 :> 1) @@ (1 :> 3), {FALSE}, "OnePair")
      b3 == add_multisets(b2, ro, (2 :> 2) @@ (1 :> 1), {FALSE}, "TwoPair")
      b4 == add_multisets(b3, ro, (3 :> 1) @@ (1 :> 2), {FALSE}, "ThreeOfAKind")
      b5 == add_straights(b4, ro, 5, {FALSE}, "Straight")
      b6 == add_multisets(b5, ro, 1 :> 5, {TRUE}, "Flush")
      b7 == add_multisets(b6, ro, (3 :> 1) @@ (2 :> 1), {FALSE}, "FullHouse")
      b8 == add_multisets(b7, ro, (4 :> 1) @@ (1 :> 1), {FALSE}, "FourOfAKind")
  IN  add_straights(b8, ro, 5, {TRUE}, "StraightFlush")

ShortDeckHoldemLookup_add_entries(b, ro) ==
  LET b1 == add_multisets(b, ro, 1 :> 5, {FALSE}, "HighCard")
      b2 == add_multisets(b1, ro, (2 :> 1) @@ (1 :> 3), {FALSE}, "OnePair")
      b3 == add_multisets(b2, ro, (2 :> 2) @@ (1 :> 1), {FALSE}, "TwoPair")
      b4 == add_multisets(b3, ro, (3 :> 1) @@ (1 :> 2), {FALSE}, "ThreeOfAKind")
      b5 == add_straights(b4, ro, 5, {FALSE}, "Straight")
      b6 == add_multisets(b5, ro, (3 :> 1) @@ (2 :> 1), {FALSE}, "FullHouse")
      b7 == add_multisets(b6, ro, 1 :> 5, {TRUE}, "Flush")
      b8 == add_multisets(b7, ro, (4 :> 1) @@ (1 :> 1), {FALSE}, "FourOfAKind")
  IN  add_straights(b8, ro, 5, {TRUE}, "StraightFlush")

RegularLookup_add_entries(b, ro) ==
  LET b1 == add_multisets(b, ro, 1 :> 5, {FALSE, TRUE}, "HighCard")
      b2 == add_multisets(b1, ro, (2 :> 1) @@ (1 :> 3), {FALSE}, "OnePair")
      b3 == add_multisets(b2, ro, (2 :> 2) @@ (1 :> 1), {FALSE}, "TwoPair")
      b4 == add_multisets(b3, ro, (3 :> 1) @@ (1 :> 2), {FALSE}, "ThreeOfAKind")
      b5 == add_multisets(b4, ro, (3 :> 1) @@ (2 :> 1), {FALSE}, "FullHouse")
  IN  add_multisets(b5, ro, (4 :> 1) @@ (1 :> 1), {FALSE}, "FourOfAKind")

\* for i in (1..=4).rev(): add_multisets({1: i}, [i == 1], HighCard)
BadugiLookup_add_entries(b, ro) ==
  LET b4 == add_multisets(b, ro, 1 :> 4, {FALSE}, "HighCard")
      b3 == add_multisets(b4, ro, 1 :> 3, {FALSE}, "HighCard")
      b2 == add_multisets(b3, ro, 1 :> 2, {FALSE}, "HighCard")
  IN  add_multisets(b2, ro, 1 :> 1, {TRUE}, "HighCard")

add_entries(lookup_type, b) ==
  LET ro == rank_order(lookup_type) IN
  CASE lookup_type = "StandardLookup" -> StandardLookup_add_entries(b, ro)
    [] lookup_type = "ShortDeckHoldemLookup" -> ShortDeckHoldemLookup_add_entries(b, ro)
    [] lookup_type = "EightOrBetterLookup" ->
         add_multisets(b, ro, 1 :> 5, {FALSE, TRUE}, "HighCard")
    [] lookup_type = "RegularLookup" -> RegularLookup_add_entries(b, ro)
    [] lookup_type \in {"BadugiLookup", "StandardBadugiLookup"} ->
         BadugiLookup_add_entries(b, ro)
    [] lookup_type = "KuhnPokerLookup" ->
         add_multisets(b, ro, 1 :> 1, {TRUE}, "HighCard")

\* fn new of each lookup: a default builder, add_entries, build
Lookup_new(lookup_type) ==
  [type |-> lookup_type,
   entries |-> LookupBuilder_build(add_entries(lookup_type, LookupBuilder_default))]

\* Lookup::get_key, and its overrides in BadugiLookup and StandardBadugiLookup
\* the provided method get_key of the trait Lookup, which the Badugi lookups
\* override
Lookup_get_key(lookup, cards_str) ==
  AndThen(parse_cards(cards_str), LAMBDA cards :
    Ok(<<hash_ranks(get_ranks(cards)), are_suited(cards)>>))

get_key(lookup, cards_str) ==
  AndThen(parse_cards(cards_str), LAMBDA cards :
    IF lookup.type \in {"BadugiLookup", "StandardBadugiLookup"}
       /\ ~are_rainbow(cards)
    THEN Err("Badugi hands must be rainbow")
    ELSE Ok(<<hash_ranks(get_ranks(cards)), are_suited(cards)>>))

get_entry(lookup, cards_str) ==
  AndThen(get_key(lookup, cards_str), LAMBDA key :
    IF key \in DOMAIN lookup.entries THEN Ok(lookup.entries[key])
    ELSE Err("The cards form an invalid hand"))

(***************************************************************************)
(* Hands (hands.rs).                                                       *)
(***************************************************************************)
\* enum HandType; every variant has a struct of the same name
HandTypes ==
  {"StandardHighHand", "StandardLowHand", "ShortDeckHoldemHand",
   "EightOrBetterLowHand", "RegularLowHand", "OmahaHoldemHand",
   "OmahaEightOrBetterLowHand", "BadugiHand", "StandardBadugiHand",
   "KuhnPokerHand"}

\* const LOW of each struct
LOW(hand_type) ==
  hand_type \in {"StandardLowHand", "EightOrBetterLowHand", "RegularLowHand",
                 "OmahaEightOrBetterLowHand", "BadugiHand", "StandardBadugiHand"}

\* the static lookup HandType::from_game pairs with each variant
StaticLookup(hand_type) ==
  CASE hand_type \in {"StandardHighHand", "StandardLowHand", "OmahaHoldemHand"} ->
         "StandardLookup"
    [] hand_type = "ShortDeckHoldemHand" -> "ShortDeckHoldemLookup"
    [] hand_type \in {"EightOrBetterLowHand", "OmahaEightOrBetterLowHand"} ->
         "EightOrBetterLookup"
    [] hand_type = "RegularLowHand" -> "RegularLookup"
    [] hand_type = "BadugiHand" -> "BadugiLookup"
    [] hand_type = "StandardBadugiHand" -> "StandardBadugiLookup"
    [] hand_type = "KuhnPokerHand" -> "KuhnPokerLookup"

\* fn new: the macros check the card count, the three hand-written structs
\* do not
Hand_new(hand_type, cards, lookup) ==
  IF hand_type \notin {"BadugiHand", "StandardBadugiHand", "KuhnPokerHand"}
     /\ Len(cards) # 5
  THEN Err("Expected 5 cards")
  ELSE AndThen(get_entry(lookup, cards_to_string(cards)), LAMBDA entry :
         Ok([type |-> hand_type, cards |-> cards, entry |-> entry]))

\* impl Ord for the hands: -1, 0, 1 for Less, Equal, Greater
Hand_cmp(a, b) ==
  LET x == IF LOW(a.type) THEN b.entry.index ELSE a.entry.index
      y == IF LOW(a.type) THEN a.entry.index ELSE b.entry.index
  IN  IF x < y THEN -1 ELSE IF x > y THEN 1 ELSE 0

\* Result::ok as filter_map takes it: the value of an Ok, nothing of an Err
Result_ok(result) == IF result.ok THEN <<result.value>> ELSE <<>>

\* Iterator::max of two optional hands: the second wins a tie
max_of(first, second) ==
  IF second = <<>> THEN first
  ELSE IF first = <<>> THEN second
  ELSE IF Hand_cmp(first[1], second[1]) = 1 THEN first
  ELSE second

\* Option::ok_or
ok_or(option, message) == IF option = <<>> THEN Err(message) ELSE Ok(option[1])

\* Iterator::max over filter_map(new(..).ok()): the empty sequence when no
\* selection is a hand, else the last of the greatest hands.  The greatest of
\* a sequence is the greatest of its two halves, the second half winning a
\* tie, which keeps the evaluation from nesting once per selection
RECURSIVE max_hand(_, _, _)
max_hand(hand_type, selections, lookup) ==
  IF Len(selections) = 0 THEN <<>>
  ELSE IF Len(selections) = 1
  THEN Result_ok(Hand_new(hand_type, selections[1], lookup))
  ELSE max_of(max_hand(hand_type, SubSeq(selections, 1, Len(selections) \div 2),
                       lookup),
              max_hand(hand_type,
                       SubSeq(selections, (Len(selections) \div 2) + 1,
                              Len(selections)),
                       lookup))

\* cartesian_product: every element of the first with every one of the second
Product(first, second) ==
  [i \in 1 .. (Len(first) * Len(second)) |->
     first[((i - 1) \div Len(second)) + 1] \o second[((i - 1) % Len(second)) + 1]]
  \o <<>>

\* a variant of the Omaha selections: any five of the nine cards
Selections_any_five(hand_type, hole, board) ==
  combinations(hole \o board, 5)

\* the card combinations each from_game goes through, in its order
Selections(hand_type, hole, board) ==
  LET all_cards == hole \o board IN
  CASE hand_type \in {"OmahaHoldemHand", "OmahaEightOrBetterLowHand"} ->
         Product(combinations(hole, 2), combinations(board, 3))
    [] hand_type \in {"BadugiHand", "StandardBadugiHand"} ->
         combinations(all_cards, 4) \o combinations(all_cards, 3)
           \o combinations(all_cards, 2) \o combinations(all_cards, 1)
    [] hand_type = "KuhnPokerHand" -> combinations(all_cards, 1)
    [] OTHER -> combinations(all_cards, 5)

\* fn from_game of the struct hand_type
from_game(hand_type, hole_cards_str, board_cards_str, lookup) ==
  AndThen(parse_cards(hole_cards_str), LAMBDA hole :
  AndThen(parse_cards(board_cards_str), LAMBDA board :
    ok_or(max_hand(hand_type, Selections(hand_type, hole, board), lookup),
          "No valid hand can be formed")))

\* HandType::from_game: every variant calls StandardHighHand::from_game with
\* the lookup of the variant
HandType_from_game(hand_type, hole_cards_str, board_cards_str, statics) ==
  from_game("StandardHighHand", hole_cards_str, board_cards_str,
            statics[StaticLookup(hand_type)])

(***************************************************************************)
(* The lookup builder as a caller of the library drives it: add_multisets  *)
(* and add_straights in any order over the rank order of a lookup, then    *)
(* build.  hash_ranks is a provided method of Lookup and does not read the *)
(* builder; it is called on the fresh one.                                 *)
(***************************************************************************)
MaxEntryCount == 7
MaxRanks == 2

\* the rank lists of at most MaxRanks ranks
RankLists == UNION {[1 .. n -> Ranks] : n \in 0 .. MaxRanks}

BuilderCounters == {1 :> 1, 1 :> 2, 2 :> 1}

Suitednesses == {{FALSE}, {TRUE}, {FALSE, TRUE}}

LookupInit == NoState(2) /\ LibraryIdle

AddMultisets ==
  /\ returned = NoCall
  /\ builder.entry_count < MaxEntryCount
  /\ \E counter \in BuilderCounters, suitednesses \in Suitednesses :
       builder' = add_multisets(builder, KUHN_POKER, counter, suitednesses, "HighCard")
  /\ UNCHANGED <<config, fields, calls_left, lookups, returned>>

AddStraights ==
  /\ returned = NoCall
  /\ builder.entry_count < MaxEntryCount
  /\ \E count \in 2 .. 3, suitednesses \in Suitednesses :
       builder' = add_straights(builder, KUHN_POKER, count, suitednesses, "Straight")
  /\ UNCHANGED <<config, fields, calls_left, lookups, returned>>

BuildLookup ==
  /\ returned = NoCall
  /\ returned' = [call |-> "LookupBuilder::build", args |-> <<>>,
                  result |-> LookupBuilder_build(builder)]
  /\ UNCHANGED <<config, fields, calls_left, lookups, builder>>

HashRanks ==
  /\ returned = NoCall
  /\ builder = LookupBuilder_default
  /\ \E ranks \in RankLists :
       returned' = [call |-> "hash_ranks", args |-> ranks, result |-> hash_ranks(ranks)]
  /\ UNCHANGED <<config, fields, calls_left, lookups, builder>>

LookupNext ==
  \/ AddMultisets
  \/ AddStraights
  \/ BuildLookup
  \/ HashRanks

LookupSpec == LookupInit /\ [][LookupNext]_vars

(***************************************************************************)
(* The hand evaluator as a caller uses it.  The static lookups are built   *)
(* once and never change; every behaviour makes one call, get_entry on a   *)
(* lookup, from_game of a hand struct with the lookup of its variant, or   *)
(* HandType::from_game.  A deal out of a pool is any two of its cards as   *)
(* the hole and the first BoardSize of the others as the board; more deals *)
(* are written out in ExampleDeals.                                        *)
(***************************************************************************)
BoardSize == 4

Pools ==
  << <<Card("Ace", "Club"), Card("Ace", "Diamond"), Card("Ace", "Heart"),
       Card("King", "Club"), Card("King", "Diamond"), Card("Deuce", "Club"),
       Card("Queen", "Club")>>,
     <<Card("Ace", "Club"), Card("Deuce", "Diamond"), Card("Trey", "Heart"),
       Card("Four", "Spade"), Card("Five", "Club"), Card("Seven", "Diamond"),
       Card("Eight", "Heart")>>,
     <<Card("Ten", "Spade"), Card("Jack", "Spade"), Card("Queen", "Spade"),
       Card("King", "Spade"), Card("Ace", "Spade"), Card("Nine", "Spade"),
       Card("Six", "Diamond")>>,
     <<Card("Six", "Club"), Card("Six", "Diamond"), Card("Seven", "Club"),
       Card("Eight", "Club"), Card("Nine", "Club"), Card("Ten", "Heart"),
       Card("Jack", "Diamond")>> >>

PoolDeals ==
  UNION {
    {[hole |-> cards_to_string(hole),
      board |-> cards_to_string(
                  SubSeq(SelectSeq(Pools[p], LAMBDA c : c \notin Range(hole)),
                         1, BoardSize))] :
       hole \in Range(combinations(Pools[p], 2))} :
    p \in 1 .. Len(Pools)}

\* AcAdKsKh with AhKdQc2s2d; the same board with three hole cards;
\* "10c Jc" with "Qc,Kc,Ac,2d"; a hole string of odd length
ExampleDeals ==
  {[hole |-> <<"A", "c", "A", "d", "K", "s", "K", "h">>,
    board |-> <<"A", "h", "K", "d", "Q", "c", "2", "s", "2", "d">>],
   [hole |-> <<"2", "c", "3", "d", "4", "h">>,
    board |-> <<"5", "s", "6", "c", "7", "d", "8", "h">>],
   [hole |-> <<"1", "0", "c", " ", "J", "c">>,
    board |-> <<"Q", "c", ",", "K", "c", ",", "A", "c", ",", "2", "d">>],
   [hole |-> <<"A", "c", "K">>,
    board |-> <<"Q", "c", "J", "c", "T", "c">>]}

Deals == PoolDeals \cup ExampleDeals

EntryInputs ==
  {<<"A", "c", "A", "d", "A", "h", "A", "s", "K", "c">>,
   <<"A", "c", "K", "c", "Q", "c", "J", "c", "T", "c">>,
   <<"A", "c", "2", "d", "3", "h", "4", "s", "5", "c">>,
   <<"2", "c", "3", "d", "4", "h", "5", "s", "6", "c">>,
   <<"A", "s", "2", "s", "3", "s", "4", "s", "5", "s">>,
   <<"A", "c", "2", "d", "3", "h", "4", "s">>,
   <<"A", "c", "2", "d", "3", "h", "4", "d">>,
   <<"A", "c", "2", "c">>,
   <<"K", "s">>,
   <<"A", "c", "A", "d">>}

\* static ..: Lazy<..> = Lazy::new(..::new), one per lookup struct, all of
\* them initialized
HandsInit ==
  /\ lookups = [lookup_type \in LookupTypes |-> Lookup_new(lookup_type)]
  /\ builder = LookupBuilder_default
  /\ returned = NoCall
  /\ NoState(2)

GetEntry ==
  /\ returned = NoCall
  /\ \E lookup_type \in LookupTypes, cards_str \in EntryInputs :
       returned' = [call |-> "get_entry",
                    args |-> [lookup |-> lookup_type, cards_str |-> cards_str],
                    result |-> get_entry(lookups[lookup_type], cards_str)]
  /\ UNCHANGED <<config, fields, calls_left, lookups, builder>>

FromGame ==
  /\ returned = NoCall
  /\ \E hand_type \in HandTypes, deal \in Deals :
       returned' = [call |-> "from_game",
                    args |-> [hand_type |-> hand_type, hole |-> deal.hole,
                              board |-> deal.board],
                    result |-> from_game(hand_type, deal.hole, deal.board,
                                         lookups[StaticLookup(hand_type)])]
  /\ UNCHANGED <<config, fields, calls_left, lookups, builder>>

HandTypeFromGame ==
  /\ returned = NoCall
  /\ \E hand_type \in HandTypes, deal \in Deals :
       returned' = [call |-> "HandType::from_game",
                    args |-> [hand_type |-> hand_type, hole |-> deal.hole,
                              board |-> deal.board],
                    result |-> HandType_from_game(hand_type, deal.hole, deal.board,
                                                  lookups)]
  /\ UNCHANGED <<config, fields, calls_left, lookups, builder>>

HandsNext ==
  \/ GetEntry
  \/ FromGame
  \/ HandTypeFromGame

HandsSpec == HandsInit /\ [][HandsNext]_vars

(***************************************************************************)
(* Vocabulary of the properties.                                           *)
(***************************************************************************)
Active == {i \in Seats : statuses[i]}

MaxBet == MaxOver(bets, Seats)

\* chips in the middle: everything that has left the stacks
ChipsInTheMiddle == SumOver(starting_stacks, Seats) - SumOver(stacks, Seats)

\* the step is a successful complete_bet_or_raise_to: its record is the next one
RaiseStep ==
  /\ Len(operations') > Len(operations)
  /\ operations'[Len(operations) + 1].type = "CompletionBettingOrRaisingTo"

RaiseRecord == operations'[Len(operations) + 1]

LastRecordIs(type) ==
  /\ operations # <<>>
  /\ operations[Len(operations)].type = type

CurrentStreet == streets[street_index + 1]

\* the condition under which a betting round is over
RoundOver ==
  \/ Cardinality(Active) <= 1
  \/ \A i \in Active : /\ bets[i] = MaxBet \/ stacks[i] = 0
                       /\ i \in acted_player_indices

(***************************************************************************)
(* C1: stack conservation: in every state the stacks, the current street   *)
(* bets and the amounts of pots() add up to the starting stacks.           *)
(***************************************************************************)
C1_StackConservation ==
  SumOver(stacks, Seats) + SumOver(bets, Seats) + TotalPotAmount(pots(Cur))
    = SumOver(starting_stacks, Seats)

(***************************************************************************)
(* C2: actor queue well-formedness: actor_indices holds no index twice,    *)
(* and every index in it is an active player with a positive stack.        *)
(***************************************************************************)
C2_ActorQueueWellFormed ==
  /\ \A j, k \in 1 .. Len(actor_indices) :
       actor_indices[j] = actor_indices[k] => j = k
  /\ \A k \in 1 .. Len(actor_indices) :
       /\ actor_indices[k] \in Seats
       /\ statuses[actor_indices[k]]
       /\ stacks[actor_indices[k]] > 0

\* a queue rebuilt by a raise while one player has folded and one is all-in
C2_Witness ==
  /\ Len(actor_indices) >= 2
  /\ LastRecordIs("CompletionBettingOrRaisingTo")
  /\ \E i \in Seats : statuses[i] /\ stacks[i] = 0

(***************************************************************************)
(* C3: hand completion: with all automations enabled, once the machine has *)
(* reached showdown or chips pushing (bet collection finished with at most *)
(* one active player, or after the last street), the hand is complete:     *)
(* status = false on return from that call.                                *)
(***************************************************************************)
C3_HandCompletes ==
  (automations = AllAutomations /\ phase \in {"showdown", "chips_pushing"})
    => status = FALSE

(***************************************************************************)
(* C4: with the dealing automations enabled, a street configured with a    *)
(* board deal leaves no board deal pending when the call returns: the      *)
(* engine has dealt the board and the betting round has begun.             *)
(***************************************************************************)
C4_BoardDealt ==
  (automations = AllAutomations /\ ~panicked /\ street_index # None)
    => \A b \in 1 .. StartingBoardCount : board_dealing_counts[b] = 0

(***************************************************************************)
(* C5: a betting round never stays open once every active player has       *)
(* matched the maximum bet or is all-in and has acted (or at most one      *)
(* player is active).                                                      *)
(***************************************************************************)
C5_RoundClosesWhenSettled ==
  (phase = "betting" /\ actor_indices # <<>>) => ~RoundOver

(***************************************************************************)
(* C6: no complete_bet_or_raise_to(x) succeeds with x below the maximum    *)
(* street bet plus the street's minimum, unless x puts the actor's whole   *)
(* stack in.                                                               *)
(***************************************************************************)
C6_RaiseBelowMinimumRejected ==
  [][RaiseStep =>
       LET actor == RaiseRecord.player_index
           x == RaiseRecord.amount
       IN  \/ x - MaxBet >= CurrentStreet.min_completion_betting_or_raising_amount
           \/ x - bets[actor] = stacks[actor]]_vars

(***************************************************************************)
(* C7: no stack is ever negative.                                          *)
(***************************************************************************)
C7_StacksNonNegative == \A i \in Seats : stacks[i] >= 0

(***************************************************************************)
(* C8: on a fixed-limit street capped at k bets/raises, the count of       *)
(* bets/raises of the round never exceeds k.                               *)
(***************************************************************************)
C8_RaiseCountCapped ==
  (/\ betting_structure = "FixedLimit"
   /\ street_index # None
   /\ CurrentStreet.max_completion_betting_or_raising_count # None)
    => completion_betting_or_raising_count
         <= CurrentStreet.max_completion_betting_or_raising_count

(***************************************************************************)
(* C9: under pot-limit, a successful complete_bet_or_raise_to(x) adds at   *)
(* most the collected pot plus the outstanding street bets to the actor's  *)
(* bet.                                                                    *)
(***************************************************************************)
C9_PotLimitCap ==
  [][(betting_structure = "PotLimit" /\ RaiseStep) =>
       RaiseRecord.amount - bets[RaiseRecord.player_index]
         <= ChipsInTheMiddle]_vars

AllInUnderRaiseStep ==
  /\ RaiseStep
  /\ RaiseRecord.amount > MaxBet
  /\ RaiseRecord.amount - MaxBet
       < CurrentStreet.min_completion_betting_or_raising_amount
  /\ RaiseRecord.amount - bets[RaiseRecord.player_index]
       = stacks[RaiseRecord.player_index]

C11_UnderRaiseDoesNotReopen ==
  [][AllInUnderRaiseStep =>
       /\ acted_player_indices \subseteq acted_player_indices'
       /\ \A k \in 1 .. Len(actor_indices') :
            actor_indices'[k] \notin acted_player_indices]_vars

(***************************************************************************)
(* C12: check_or_call by the actor p moves exactly                         *)
(* min(max_bet - bets[p], stacks[p]) chips from p's stack to p's street    *)
(* bet: p's stack stays >= 0 and is 0 after an all-in call, and no other   *)
(* player's stack, bet or payoff changes.  When the call ends the round    *)
(* and the bets are collected in the same call, the bets so formed are the *)
(* amount of the BetCollection record that follows.                        *)
(***************************************************************************)
CallStep ==
  /\ Len(operations') > Len(operations)
  /\ operations'[Len(operations) + 1].type = "CheckingOrCalling"

CallRecord == operations'[Len(operations) + 1]

CallerRecordTypes ==
  {"AntePosting", "BetCollection", "BlindOrStraddlePosting", "CardBurning",
   "HoleDealing", "Folding", "CheckingOrCalling",
   "CompletionBettingOrRaisingTo"}

C13_Transactional ==
  [][/\ ~panicked'
     /\ Len(operations') > Len(operations)
     /\ SubSeq(operations', 1, Len(operations)) = operations
     /\ operations'[Len(operations) + 1].type \in CallerRecordTypes
     /\ \A k \in (Len(operations) + 2) .. Len(operations') :
          operations'[k].type \in automations]_vars

(***************************************************************************)
(* C14: no public operation aborts: a call whose precondition fails        *)
(* (post_ante(None) or post_blind_or_straddle(None) with no poster         *)
(* pending, burn_card or deal_hole drawing from a deck that holds too few  *)
(* cards) returns an error and never panics.                               *)
(***************************************************************************)
C14_NoAbort == ~panicked

(***************************************************************************)
(* C15: the amounts of pots() add up to the total of the players'          *)
(* contributions (negative payoff plus current street bet), and            *)
(* eligibility is nested: who is eligible for a pot is eligible for every  *)
(* pot of a lower contribution level.  The caller may pass any i64 amount. *)
(***************************************************************************)
C15_PotsPartitionContributions ==
  LET ps == pots(Cur) IN
  /\ TotalPotAmount(ps) = SumOver(contributions(Cur), Seats)
  /\ \A j, k \in 1 .. Len(ps) :
       j <= k => ps[k].player_indices \subseteq ps[j].player_indices

(***************************************************************************)
(* C16: all-in side pots: when the three players with starting stacks 100, *)
(* 50 and 200 are all all-in, pots() is exactly three pots: 150 for        *)
(* players 0, 1 and 2, then 100 for players 0 and 2, then 100 for player 2 *)
(* alone, 350 in total.                                                    *)
(***************************************************************************)
AllAllIn ==
  /\ player_count = 3
  /\ starting_stacks = Vec(<<100, 50, 200>>)
  /\ \A i \in Seats : statuses[i] /\ stacks[i] = 0

C16_AllInSidePots ==
  AllAllIn =>
    LET ps == pots(Cur) IN
    /\ Len(ps) = 3
    /\ amount(ps[1]) = 150 /\ ps[1].player_indices = {0, 1, 2}
    /\ amount(ps[2]) = 100 /\ ps[2].player_indices = {0, 2}
    /\ amount(ps[3]) = 100 /\ ps[3].player_indices = {2}
    /\ TotalPotAmount(ps) = 350

(***************************************************************************)
(* C17: with ante_trimming_status = true the antes form no side pots: when *)
(* the players have posted unequal effective antes and nothing else,       *)
(* pots() is a single pot holding all antes, for which every active player *)
(* is eligible.                                                            *)
(***************************************************************************)
OnlyAntesPosted ==
  /\ \A i \in Seats : ~ante_posting_statuses[i]
  /\ \A i \in Seats :
       stacks[i] = starting_stacks[i] - get_effective_ante(Cur, i)
  /\ \E i, j \in Seats :
       get_effective_ante(Cur, i) # get_effective_ante(Cur, j)

C17_TrimmedAntesFormOnePot ==
  (ante_trimming_status /\ ~panicked /\ OnlyAntesPosted) =>
    LET ps == pots(Cur) IN
    /\ Len(ps) = 1
    /\ ps[1].player_indices = Active

(***************************************************************************)
(* C18: heads-up swap: with two players the ante and the blind a player    *)
(* posts are those configured for the other index (capped by the stack,    *)
(* the blind by the stack less the ante); with three or more players they  *)
(* are those of the player's own index.  In particular with blinds         *)
(* {0: 1, 1: 2} player 1 posts 1 and player 0 posts 2.                     *)
(***************************************************************************)
ConfiguredIndex(i) == IF player_count = 2 THEN 1 - i ELSE i

ExpectedAnte(i) == Min(antes[ConfiguredIndex(i)], starting_stacks[i])

ExpectedBlind(i) ==
  Min(Abs(blinds_or_straddles[ConfiguredIndex(i)]),
      starting_stacks[i] - ExpectedAnte(i))

C18_HeadsUpSwap ==
  /\ \A k \in 1 .. Len(operations) :
       LET r == operations[k] IN
       /\ r.type = "AntePosting" => r.amount = ExpectedAnte(r.player_index)
       /\ r.type = "BlindOrStraddlePosting"
            => r.amount = ExpectedBlind(r.player_index)
  /\ (/\ player_count = 2
      /\ blinds_or_straddles = Vec(<<1, 2>>)
      /\ \A i \in Seats : starting_stacks[i] >= 3)
       => \A k \in 1 .. Len(operations) :
            operations[k].type = "BlindOrStraddlePosting"
              => operations[k].amount = 2 - operations[k].player_index

\* heads-up with blinds {0: 1, 1: 2}: both blinds have been posted
C18_Witness ==
  /\ player_count = 2
  /\ blinds_or_straddles = Vec(<<1, 2>>)
  /\ \E j, k \in 1 .. Len(operations) :
       /\ operations[j] = Rec("BlindOrStraddlePosting", 0, 2, <<>>)
       /\ operations[k] = Rec("BlindOrStraddlePosting", 1, 1, <<>>)

(***************************************************************************)
(* C19: heads-up with blinds {0: 1, 1: 2}: when the first betting round    *)
(* begins, the first to act is player 1, who posted the small blind.       *)
(***************************************************************************)
BettingRecordTypes ==
  {"Folding", "CheckingOrCalling", "CompletionBettingOrRaisingTo"}

\* the first betting round has begun and nobody has acted in it
FirstRoundJustBegun ==
  /\ ~panicked
  /\ phase = "betting"
  /\ street_index = 0
  /\ \A k \in 1 .. Len(operations) :
       operations[k].type \notin BettingRecordTypes

C19_HeadsUpSmallBlindActsFirst ==
  (/\ player_count = 2
   /\ blinds_or_straddles = Vec(<<1, 2>>)
   /\ FirstRoundJustBegun)
    => /\ actor_indices # <<>>
       /\ Head(actor_indices) = 1

(***************************************************************************)
(* C20: opening by position on the first street: when the betting round    *)
(* begins, the opener is the first active player found from the seat after *)
(* the last index with a non-zero blind/straddle, wrapping modulo          *)
(* player_count, and the actor queue runs from the opener over the players *)
(* who can act.                                                            *)
(***************************************************************************)
\* begin_betting has just run on the first street: the deal that completed
\* the dealing is the last record
FirstStreetRoundBegun ==
  /\ ~panicked
  /\ phase = "betting"
  /\ street_index = 0
  /\ LastRecordIs("HoleDealing")

LastNonZeroBlindIndex ==
  CHOOSE i \in Seats :
    /\ blinds_or_straddles[i] # 0
    /\ \A j \in Seats : blinds_or_straddles[j] # 0 => j <= i

FirstActiveAfter(seat) ==
  LET distance == CHOOSE d \in 1 .. player_count :
                    /\ statuses[(seat + d) % player_count]
                    /\ \A e \in 1 .. (d - 1) :
                         ~statuses[(seat + e) % player_count]
  IN  (seat + distance) % player_count

C20_OpeningByPosition ==
  (/\ FirstStreetRoundBegun
   /\ \E i \in Seats : blinds_or_straddles[i] # 0
   /\ CurrentStreet.opening = "Position")
    => LET opener == FirstActiveAfter(LastNonZeroBlindIndex)
           can_act(i) == statuses[i] /\ stacks[i] > 0
       IN  /\ opener_index = opener
           /\ actor_indices = SelectSeq(CyclicSeats(player_count, opener), can_act)

(***************************************************************************)
(* C21: opening by position on a street after the first: when the betting  *)
(* round begins, opener_index is the lowest-index active player, and the    *)
(* actor queue runs from that seat over the players who can act, so that    *)
(* its front is the first player at or after the opener who has chips.      *)
(***************************************************************************)
\* begin_betting has just run on a later street
LaterStreetRoundBegun ==
  /\ ~panicked
  /\ phase = "betting"
  /\ street_index >= 1
  /\ LastRecordIs("HoleDealing")
  /\ CurrentStreet.opening = "Position"

LowestActiveIndex == CHOOSE i \in Active : \A j \in Active : i <= j

Posted(type, i) ==
  LET posts == {k \in 1 .. Len(operations) :
                  /\ operations[k].type = type
                  /\ operations[k].player_index = i}
  IN  SumOver([k \in posts |-> operations[k].amount], posts)

NobodyHasActed ==
  \A k \in 1 .. Len(operations) : operations[k].type \notin BettingRecordTypes

AllForcedBetsPosted ==
  /\ ~panicked
  /\ NobodyHasActed
  /\ \A i \in Seats : /\ ~ante_posting_statuses[i]
                       /\ ~blind_or_straddle_posting_statuses[i]

Configuration ==
  [player_count |-> player_count, automations |-> automations,
   betting_structure |-> betting_structure,
   ante_trimming_status |-> ante_trimming_status, streets |-> streets,
   antes |-> antes, blinds_or_straddles |-> blinds_or_straddles,
   starting_stacks |-> starting_stacks]

\* build has returned and the caller has not called anything yet
JustBuilt == calls_left = CallBudget(Configuration)

SetupAutomations ==
  {"AntePosting", "BetCollection", "BlindOrStraddlePosting", "CardBurning",
   "HoleDealing"}

SetupRecordTypes ==
  {"AntePosting", "BetCollection", "BlindOrStraddlePosting", "CardBurning",
   "HoleDealing"}

StacksCoverForcedBets ==
  \A i \in Seats :
    starting_stacks[i] > antes[ConfiguredIndex(i)]
                          + Abs(blinds_or_straddles[ConfiguredIndex(i)])

NothingPending ==
  /\ \A i \in Seats : /\ ~ante_posting_statuses[i]
                       /\ ~blind_or_straddle_posting_statuses[i]
                       /\ hole_dealing_statuses[i] = <<>>
                       /\ ~standing_pat_or_discarding_statuses[i]
  /\ ~bet_collection_status
  /\ ~card_burning_status
  /\ \A b \in DOMAIN board_dealing_counts : board_dealing_counts[b] = 0

C23_QuiescentAfterBuild ==
  (JustBuilt /\ SetupAutomations \subseteq automations /\ StacksCoverForcedBets)
    => /\ ~panicked
       /\ phase = "betting"
       /\ street_index = 0
       /\ NothingPending
       /\ actor_indices # <<>>
       /\ \A k \in 1 .. Len(operations) : operations[k].type \in SetupRecordTypes

\* build has posted antes, collected them, posted blinds and dealt
C23_Witness ==
  /\ JustBuilt
  /\ SetupAutomations \subseteq automations
  /\ StacksCoverForcedBets
  /\ \A type \in {"AntePosting", "BetCollection", "BlindOrStraddlePosting",
                   "HoleDealing"} :
       \E k \in 1 .. Len(operations) : operations[k].type = type
  /\ phase = "betting"

(***************************************************************************)
(* C24: invalid configuration is rejected at construction: build returns   *)
(* Err, and no State exists, when the player count is below 2 or the       *)
(* street list is empty; Street::new returns Err, and no street, when the  *)
(* minimum bet/raise amount is not positive or the street both deals hole  *)
(* cards and allows drawing; every street the caller obtained is valid.    *)
(***************************************************************************)
InvalidStreet(a) ==
  \/ a.min_completion_betting_or_raising_amount <= 0
  \/ a.hole_dealing_statuses # <<>> /\ a.draw_status

C24_InvalidConfigurationRejected ==
  /\ (returned.call = "StateBuilder::build" /\ (player_count < 2 \/ streets = <<>>))
       => /\ ~returned.result.ok
          /\ phase = "unbuilt"
          /\ operations = <<>>
  /\ (returned.call = "Street::new" /\ InvalidStreet(returned.args))
       => /\ ~returned.result.ok
          /\ returned.result.value = None
  /\ \A k \in 1 .. Len(streets) : ~InvalidStreet(streets[k])

\* build has refused a builder of one player that holds a street
C24_Witness ==
  /\ returned.call = "StateBuilder::build"
  /\ player_count = 1
  /\ streets # <<>>
  /\ ~returned.result.ok
  /\ phase = "unbuilt"

(***************************************************************************)
(* C25: entry density.  The map LookupBuilder::build returns, after any    *)
(* sequence of add_multisets and add_straights calls, has the keys and the *)
(* labels the builder held; its indices are exactly 0 .. N-1, N being the  *)
(* number of distinct indices; and two entries compare after build as they *)
(* did in the builder.                                                     *)
(***************************************************************************)
LookupBuilt == returned.call = "LookupBuilder::build"

IndicesOf(entries) == {entries[k].index : k \in DOMAIN entries}

C25_EntryDensity ==
  LookupBuilt =>
    LET built == returned.result
        held == builder.entries
    IN  /\ DOMAIN built = DOMAIN held
        /\ IndicesOf(built) = 0 .. (Cardinality(IndicesOf(built)) - 1)
        /\ \A k \in DOMAIN held : built[k].label = held[k].label
        /\ \A k1, k2 \in DOMAIN held :
             (held[k1].index < held[k2].index) <=> (built[k1].index < built[k2].index)

\* a lookup was built from a builder in which overwritten keys had left
\* indices unused below a used one
C25_Witness ==
  /\ LookupBuilt
  /\ Cardinality(IndicesOf(returned.result)) >= 2
  /\ \E i \in 0 .. (builder.entry_count - 1) :
       /\ i \notin IndicesOf(builder.entries)
       /\ \E j \in IndicesOf(builder.entries) : i < j

(***************************************************************************)
(* C30: fingerprint uniqueness.  Whenever hash_ranks has returned the      *)
(* product for a list of ranks, every list of ranks with the same product  *)
(* holds each rank as many times as that list does.                        *)
(***************************************************************************)
Multiplicity(ranks, rank) == Len(SelectSeq(ranks, LAMBDA r : r = rank))

SameMultiset(a, b) == \A rank \in Ranks : Multiplicity(a, rank) = Multiplicity(b, rank)

C30_FingerprintUnique ==
  returned.call = "hash_ranks" =>
    \A other \in RankLists :
      hash_ranks(other) = returned.result => SameMultiset(other, returned.args)

(***************************************************************************)
(* C26: best-of correctness.  When from_game of a hand struct, or          *)
(* HandType::from_game for a variant, has returned a hand for a hole and a *)
(* board that parse, the hand is one of the legal selections of the hand   *)
(* type that the lookup knows, with the entry of that selection, and no    *)
(* such selection has a greater index (for a low hand type: a smaller      *)
(* one); when it has returned an error, the lookup knows none of them.     *)
(* The legal selections are: two hole cards with three board cards for the *)
(* Omaha types, one to four cards for the Badugi types, one card for Kuhn  *)
(* poker, any five cards otherwise.                                        *)
(***************************************************************************)
RECURSIVE InSomeOrder(_)
InSomeOrder(S) ==
  IF S = {} THEN <<>>
  ELSE LET x == CHOOSE y \in S : TRUE IN <<x>> \o InSomeOrder(S \ {x})

OfSize(S, n) == {T \in SUBSET S : Cardinality(T) = n}

LegalSelections(hand_type, hole, board) ==
  LET all == Range(hole) \cup Range(board) IN
  CASE hand_type \in {"OmahaHoldemHand", "OmahaEightOrBetterLowHand"} ->
         {h \cup b : h \in OfSize(Range(hole), 2), b \in OfSize(Range(board), 3)}
    [] hand_type \in {"BadugiHand", "StandardBadugiHand"} ->
         UNION {OfSize(all, n) : n \in 1 .. 4}
    [] hand_type = "KuhnPokerHand" -> OfSize(all, 1)
    [] OTHER -> OfSize(all, 5)

\* the entry of a selection in the lookup of the hand type
EntryOf(hand_type, selection) ==
  get_entry(lookups[StaticLookup(hand_type)], cards_to_string(InSomeOrder(selection)))

\* the entries of the legal selections the lookup of the hand type knows
KnownEntries(hand_type, hole, board) ==
  {EntryOf(hand_type, T).value :
     T \in {U \in LegalSelections(hand_type, hole, board) : EntryOf(hand_type, U).ok}}

BestOf(call) ==
  returned.call = call =>
    LET hand_type == returned.args.hand_type
        hole == parse_cards(returned.args.hole)
        board == parse_cards(returned.args.board)
        hand == returned.result.value
    IN  hole.ok /\ board.ok =>
          LET known == KnownEntries(hand_type, hole.value, board.value) IN
          IF returned.result.ok
          THEN /\ Range(hand.cards) \in LegalSelections(hand_type, hole.value, board.value)
               /\ get_entry(lookups[StaticLookup(hand_type)],
                            cards_to_string(hand.cards)) = Ok(hand.entry)
               /\ \A e \in known :
                    IF LOW(hand_type) THEN hand.entry.index <= e.index
                    ELSE hand.entry.index >= e.index
          ELSE known = {}

C26_BestOf == BestOf("from_game") /\ BestOf("HandType::from_game")

(***************************************************************************)
(* C27: Omaha best-of.  When from_game of OmahaHoldemHand or of            *)
(* OmahaEightOrBetterLowHand has returned a hand, the hand holds five      *)
(* cards, two of them hole cards and three of them board cards; for the    *)
(* hole AcAdKsKh and the board AhKdQc2s2d the OmahaHoldemHand is a full    *)
(* house of three aces and two deuces.                                     *)
(***************************************************************************)
OmahaTypes == {"OmahaHoldemHand", "OmahaEightOrBetterLowHand"}

OmahaExample ==
  [hole |-> <<"A", "c", "A", "d", "K", "s", "K", "h">>,
   board |-> <<"A", "h", "K", "d", "Q", "c", "2", "s", "2", "d">>]

OmahaReturned(call) ==
  /\ returned.call = call
  /\ returned.args.hand_type \in OmahaTypes
  /\ returned.result.ok

OnExample ==
  /\ returned.args.hand_type = "OmahaHoldemHand"
  /\ returned.args.hole = OmahaExample.hole
  /\ returned.args.board = OmahaExample.board

TwoHoleThreeBoard ==
  LET cards == Range(returned.result.value.cards) IN
  /\ Len(returned.result.value.cards) = 5
  /\ Cardinality(cards \cap Range(parse_cards(returned.args.hole).value)) = 2
  /\ Cardinality(cards \cap Range(parse_cards(returned.args.board).value)) = 3

FullHouseOf(three, two) ==
  /\ returned.result.value.entry.label = "FullHouse"
  /\ Multiplicity(get_ranks(returned.result.value.cards), three) = 3
  /\ Multiplicity(get_ranks(returned.result.value.cards), two) = 2

Categories ==
  <<"HighCard", "OnePair", "TwoPair", "ThreeOfAKind", "Straight", "Flush",
    "FullHouse", "FourOfAKind", "StraightFlush">>

StandardEntries == lookups["StandardLookup"].entries

IndicesLabelled(label) ==
  {StandardEntries[k].index : k \in {j \in DOMAIN StandardEntries :
                                      StandardEntries[j].label = label}}

LookedUpInStandard ==
  returned.call = "get_entry" /\ returned.args.lookup = "StandardLookup"

FourAces == <<"A", "c", "A", "d", "A", "h", "A", "s", "K", "c">>

RoyalFlush == <<"A", "c", "K", "c", "Q", "c", "J", "c", "T", "c">>

C28_CategoriesInOrder ==
  (LookedUpInStandard /\ returned.args.cards_str \in {FourAces, RoyalFlush}) =>
    /\ \E indices \in {[i \in 1 .. Len(Categories) |->
                           IndicesLabelled(Categories[i])] \o <<>>} :
         \A i \in 1 .. Len(Categories) :
           \E weaker \in {Cardinality(UNION {indices[j] : j \in 1 .. (i - 1)})} :
             /\ indices[i] # {}
             /\ \A x \in indices[i] :
                  weaker <= x /\ x < weaker + Cardinality(indices[i])
    /\ returned.result.ok
    /\ returned.args.cards_str = FourAces => returned.result.value.label = "FourOfAKind"
    /\ returned.args.cards_str = RoyalFlush =>
         /\ returned.result.value.label = "StraightFlush"
         /\ \A k \in DOMAIN StandardEntries :
              StandardEntries[k].index <= returned.result.value.index

C28_Witness ==
  /\ LookedUpInStandard
  /\ returned.args.cards_str = RoyalFlush
  /\ returned.result.ok

(***************************************************************************)
(* C29: the wheel is the lowest straight.  In the StandardLookup get_entry *)
(* labels Ac2d3h4s5c Straight, with an index smaller than that of          *)
(* 2c3d4h5s6c and of every other key labelled Straight; and it labels the  *)
(* suited wheel As2s3s4s5s StraightFlush, with an index smaller than that  *)
(* of every other key labelled StraightFlush.                              *)
(***************************************************************************)
LowestOf(label) ==
  LET key == get_key(lookups["StandardLookup"], returned.args.cards_str).value
      entry == returned.result.value
  IN  /\ returned.result.ok
      /\ entry.label = label
      /\ \A k \in DOMAIN StandardEntries :
           (StandardEntries[k].label = label /\ k # key)
             => entry.index < StandardEntries[k].index

C29_WheelIsLowestStraight ==
  LookedUpInStandard =>
    /\ returned.args.cards_str = <<"A", "c", "2", "d", "3", "h", "4", "s", "5", "c">> =>
         /\ LowestOf("Straight")
         /\ \E six_high \in {get_entry(lookups["StandardLookup"],
                               <<"2", "c", "3", "d", "4", "h", "5", "s", "6", "c">>)} :
              /\ six_high.ok
              /\ six_high.value.label = "Straight"
              /\ returned.result.value.index < six_high.value.index
    /\ returned.args.cards_str = <<"A", "s", "2", "s", "3", "s", "4", "s", "5", "s">> =>
         LowestOf("StraightFlush")

C29_Witness ==
  /\ LookedUpInStandard
  /\ returned.args.cards_str = <<"A", "c", "2", "d", "3", "h", "4", "s", "5", "c">>
  /\ returned.result.ok
  /\ \E k \in DOMAIN StandardEntries :
       /\ StandardEntries[k].label = "Straight"
       /\ StandardEntries[k].index > returned.result.value.index

(***************************************************************************)
(* C31: the Badugi lookups accept only rainbow hands: get_entry succeeds   *)
(* for Ac2d3h4s, and for every input in which a suit repeats it fails with *)
(* the rainbow error and returns no entry.                                 *)
(***************************************************************************)
BadugiLookups == {"BadugiLookup", "StandardBadugiLookup"}

\* the suit characters of a card string written without separators
SuitRepeats(cards_str) ==
  \E i, j \in 1 .. (Len(cards_str) \div 2) :
    i # j /\ cards_str[2 * i] = cards_str[2 * j]

GotEntryFromBadugi ==
  /\ returned.call = "get_entry"
  /\ returned.args.lookup \in BadugiLookups

C31_BadugiRainbow ==
  GotEntryFromBadugi =>
    /\ returned.args.cards_str = <<"A", "c", "2", "d", "3", "h", "4", "s">>
         => returned.result.ok
    /\ SuitRepeats(returned.args.cards_str)
         => /\ ~returned.result.ok
            /\ returned.result.error = "Badugi hands must be rainbow"

\* Ac2d3h4d was looked up in the Badugi lookup
C31_Witness ==
  /\ GotEntryFromBadugi
  /\ returned.args.lookup = "BadugiLookup"
  /\ returned.args.cards_str = <<"A", "c", "2", "d", "3", "h", "4", "d">>
  /\ ~returned.result.ok

(***************************************************************************)
(* C32: no stuck betting round: whenever the hand is in a betting round    *)
(* (a street dealt, no posting, collection or dealing pending, more than   *)
(* one player active, status true), actor_indices is not empty.            *)
(***************************************************************************)
NoPostingPending ==
  /\ \A i \in Seats : ~ante_posting_statuses[i]
  /\ \A i \in Seats : ~blind_or_straddle_posting_statuses[i]

NoDealingPending ==
  /\ ~card_burning_status
  /\ \A i \in Seats : hole_dealing_statuses[i] = <<>>
  /\ \A b \in 1 .. StartingBoardCount : board_dealing_counts[b] = 0
  /\ \A i \in Seats : ~standing_pat_or_discarding_statuses[i]

InBettingRound ==
  /\ phase = "betting"
  /\ ~panicked
  /\ status
  /\ street_index # None
  /\ NoPostingPending
  /\ ~bet_collection_status
  /\ NoDealingPending
  /\ Cardinality(Active) > 1

C32_NoStuckBettingRound == InBettingRound => actor_indices # <<>>

(***************************************************************************)
(* C33: caller-driven phase transitions: when the automation of ante       *)
(* posting (blind/straddle posting, bet collection) is not enabled and the *)
(* caller performs the last pending post_ante (post_blind_or_straddle,     *)
(* collect_bets), the phase ends within that call: the machine has moved   *)
(* to the next phase when the call returns.                                *)
(***************************************************************************)
\* the step is a successful call of the caller that logs a record of the type
CallerStep(type) ==
  /\ ~panicked'
  /\ Len(operations') > Len(operations)
  /\ operations'[Len(operations) + 1].type = type
  /\ type \notin automations

LastPostAnte ==
  /\ CallerStep("AntePosting")
  /\ \A i \in Seats : ~ante_posting_statuses'[i]

LastPostBlindOrStraddle ==
  /\ CallerStep("BlindOrStraddlePosting")
  /\ \A i \in Seats : ~blind_or_straddle_posting_statuses'[i]

LastCollectBets ==
  /\ CallerStep("BetCollection")
  /\ ~bet_collection_status'

C33_CallerEndsPhase ==
  [][/\ LastPostAnte => phase' # "ante_posting"
     /\ LastPostBlindOrStraddle => phase' # "blind_or_straddle_posting"
     /\ (LastCollectBets /\ phase = "bet_collection")
          => phase' # "bet_collection"]_vars

(***************************************************************************)
(* C34: in every state of a hand in progress (status = true) exactly one   *)
(* phase is active among ante posting, bet collection, blind/straddle      *)
(* posting, dealing, betting, showdown, chips pushing and chips pulling.   *)
(* A phase with phase-specific state is active when that state has         *)
(* something pending; showdown and chips pushing keep no state and are     *)
(* active when the machine entered them last; nothing enters chips         *)
(* pulling.                                                                *)
(***************************************************************************)
ActivePhases ==
  {p \in {"ante_posting", "bet_collection", "blind_or_straddle_posting",
          "dealing", "betting", "showdown", "chips_pushing", "chips_pulling"} :
     CASE p = "ante_posting" -> \E i \in Seats : ante_posting_statuses[i]
       [] p = "bet_collection" -> bet_collection_status
       [] p = "blind_or_straddle_posting" ->
            \E i \in Seats : blind_or_straddle_posting_statuses[i]
       [] p = "dealing" -> ~NoDealingPending
       [] p = "betting" -> actor_indices # <<>>
       [] p = "showdown" -> phase = "showdown"
       [] p = "chips_pushing" -> phase = "chips_pushing"
       [] p = "chips_pulling" -> FALSE}

C34_ExactlyOnePhase ==
  (status /\ ~panicked) => Cardinality(ActivePhases) = 1

(***************************************************************************)
(* C35: phase order in the log: every AntePosting record precedes every    *)
(* BlindOrStraddlePosting record, both precede the first HoleDealing       *)
(* record, and no Folding, CheckingOrCalling or                            *)
(* CompletionBettingOrRaisingTo record of a street is logged before the    *)
(* dealing of that street is complete.                                     *)
(***************************************************************************)
\* every record of a type in Earlier stands before every record of a type in
\* Later
Precede(Earlier, Later) ==
  \A j, k \in 1 .. Len(operations) :
    (operations[j].type \in Earlier /\ operations[k].type \in Later) => j < k

\* the step logs a betting record of the caller
BettingStep ==
  /\ ~panicked'
  /\ Len(operations') > Len(operations)
  /\ operations'[Len(operations) + 1].type \in BettingRecordTypes

C35_PhaseOrderInLog ==
  /\ [](/\ Precede({"AntePosting"}, {"BlindOrStraddlePosting"})
        /\ Precede({"AntePosting", "BlindOrStraddlePosting"}, {"HoleDealing"}))
  /\ [][BettingStep => (street_index # None /\ NoDealingPending)]_vars

\* antes, blinds, hole cards and an action of the first betting round are in
\* the log
C35_Witness ==
  \E a, b, h, f \in 1 .. Len(operations) :
    /\ operations[a].type = "AntePosting"
    /\ operations[b].type = "BlindOrStraddlePosting"
    /\ operations[h].type = "HoleDealing"
    /\ operations[f].type \in BettingRecordTypes
    /\ a < b /\ b < h /\ h < f

(***************************************************************************)
(* C36: on a street that burns a card the burn comes before any hole card  *)
(* of that street: while the burn of the street is pending, no hole card   *)
(* of the street has been dealt (every active player still waits for the   *)
(* whole hole-deal pattern of the street), so the CardBurning record of    *)
(* the street precedes its HoleDealing records.                            *)
(***************************************************************************)
C36_BurnBeforeHoleCards ==
  (~panicked /\ street_index # None /\ card_burning_status)
    => \A i \in Active :
         hole_dealing_statuses[i] = CurrentStreet.hole_dealing_statuses

(***************************************************************************)
(* C37: when the dealing of a street with hole-deal pattern P is complete, *)
(* every active player has received exactly the cards of P on that street, *)
(* with the face-up flags of P in order, and a folded player has received  *)
(* none.  Over the streets dealt so far: an active player holds one card   *)
(* per flag of the patterns of the streets 0 .. street_index, the flags    *)
(* in that order, and no HoleDealing record hands a card to a player who   *)
(* had folded.                                                             *)
(***************************************************************************)
RECURSIVE PatternsThrough(_)
PatternsThrough(k) ==
  IF k < 0 THEN <<>>
  ELSE PatternsThrough(k - 1) \o streets[k + 1].hole_dealing_statuses

DealingComplete == ~panicked /\ street_index # None /\ NoDealingPending

NoCardAfterFolding ==
  \A j, k \in 1 .. Len(operations) :
    (/\ j < k
     /\ operations[j].type = "Folding"
     /\ operations[k].type = "HoleDealing"
     /\ operations[k].player_index = operations[j].player_index)
      => operations[k].cards = <<>>

C38_RaiserNotAskedAgain ==
  (/\ ~panicked
   /\ phase = "betting"
   /\ completion_betting_or_raising_count > 0
   /\ actor_indices # <<>>)
    => Head(actor_indices) # opener_index

(***************************************************************************)
(* C39: card conservation: in every state each card of the configured deck *)
(* is in exactly one place: deck_cards, the hole cards of a player,        *)
(* burn_cards, mucked_cards or a board.                                    *)
(***************************************************************************)
Occurrences(q, card) == Cardinality({k \in 1 .. Len(q) : q[k] = card})

Places(card) ==
  Occurrences(deck_cards, card) + Occurrences(burn_cards, card)
    + Occurrences(mucked_cards, card)
    + SumOver([i \in Seats |-> Occurrences(hole_cards[i], card)], Seats)
    + SumOver([b \in 1 .. StartingBoardCount |-> Occurrences(board_cards[b], card)],
              1 .. StartingBoardCount)

C39_CardConservation ==
  ~panicked => \A card \in Range(Deck) : Places(card) = 1

(***************************************************************************)
(* C40: deal_hole is rejected whenever the targeted player has no hole     *)
(* card pending, whatever cards are given: a call that logs a HoleDealing  *)
(* record starts in a state in which the dealee of the record has a hole   *)
(* card pending, so no HoleDealing record is appended and begin_betting is *)
(* not entered again during a betting round.                               *)
(***************************************************************************)
\* the step is a deal_hole call that returns Ok: its record is the next one
DealHoleStep ==
  /\ ~panicked'
  /\ Len(operations') > Len(operations)
  /\ operations'[Len(operations) + 1].type = "HoleDealing"

C40_DealHoleNeedsPending ==
  [][DealHoleStep =>
       hole_dealing_statuses[operations'[Len(operations) + 1].player_index] # <<>>]_vars

====
